---- MODULE Spec2Model ----
(***************************************************************************)
(* Verification model of video_downloader.py: the download orchestration   *)
(* and playlist-synchronisation engine (DownloadWorker,                    *)
(* BatchDownloadWorker, the download history of MainWindow, the local      *)
(* file matcher and detect_playlist_updates).                              *)
(*                                                                         *)
(* Text is modelled by TLA+ strings, read character by character with      *)
(* SubSeq, so that the regular expressions and substring tests of the      *)
(* source are computed and not assumed.                                    *)
(***************************************************************************)
EXTENDS Integers, Sequences, FiniteSets, TLC

\* ======================================================================
\* Text helpers (Python str operations used by the source)
\* ======================================================================

\* s[i-1:i]: the character at position i, "" outside the text
Ch(s, i) == IF i >= 1 /\ i <= Len(s) THEN SubSeq(s, i, i) ELSE ""

InClass(c, cls) == \E i \in 1..Len(cls) : Ch(cls, i) = c

\* Python: t in s
Contains(s, t) ==
    \/ Len(t) = 0
    \/ \E p \in 1..(Len(s) - Len(t) + 1) : SubSeq(s, p, p + Len(t) - 1) = t

\* Python: s.endswith(t)
EndsWith(s, t) ==
    /\ Len(t) <= Len(s)
    /\ SubSeq(s, Len(s) - Len(t) + 1, Len(s)) = t

\* Python: s.startswith(t) at position p
MatchesAt(s, p, t) ==
    /\ p + Len(t) - 1 <= Len(s)
    /\ SubSeq(s, p, p + Len(t) - 1) = t

LowerLetters == "abcdefghijklmnopqrstuvwxyz"
UpperLetters == "ABCDEFGHIJKLMNOPQRSTUVWXYZ"
DigitChars == "0123456789"
\* [A-Za-z0-9_-]
IdChars == LowerLetters \o UpperLetters \o DigitChars \o "_-"
\* [0-9A-Za-z]
AlnumChars == DigitChars \o UpperLetters \o LowerLetters
\* \w
WordChars == AlnumChars \o "_"

LowerCh(c) ==
    IF InClass(c, UpperLetters)
    THEN Ch(LowerLetters, CHOOSE i \in 1..Len(UpperLetters) : Ch(UpperLetters, i) = c)
    ELSE c

RECURSIVE LowerFrom(_, _)
LowerFrom(s, i) ==
    IF i > Len(s) THEN "" ELSE LowerCh(Ch(s, i)) \o LowerFrom(s, i + 1)

\* Python: s.lower()
Lower(s) == LowerFrom(s, 1)

RECURSIVE FirstNonSpace(_, _)
FirstNonSpace(s, i) ==
    IF i > Len(s) \/ Ch(s, i) # " " THEN i ELSE FirstNonSpace(s, i + 1)

RECURSIVE LastNonSpace(_, _)
LastNonSpace(s, i) ==
    IF i < 1 \/ Ch(s, i) # " " THEN i ELSE LastNonSpace(s, i - 1)

\* Python: s.strip()
Strip(s) ==
    IF FirstNonSpace(s, 1) > LastNonSpace(s, Len(s)) THEN ""
    ELSE SubSeq(s, FirstNonSpace(s, 1), LastNonSpace(s, Len(s)))

\* Length of the maximal run of characters of cls starting at position p.
RECURSIVE RunLen(_, _, _)
RunLen(s, p, cls) ==
    IF p > Len(s) \/ ~InClass(Ch(s, p), cls) THEN 0 ELSE 1 + RunLen(s, p + 1, cls)

MinOf(S) == CHOOSE x \in S : \A y \in S : x <= y
MaxOf(S) == CHOOSE x \in S : \A y \in S : x >= y

\* re.search of  (prefix1|prefix2|...)([cls]{lo,hi})  : the positions where
\* one of the literal prefixes is followed by at least lo characters of cls.
RegexHits(s, prefixes, cls, lo) ==
    { p \in 1..Len(s) :
        \E pre \in prefixes :
            /\ MatchesAt(s, p, pre)
            /\ RunLen(s, p + Len(pre), cls) >= lo }

\* The text captured by the leftmost match ("" when there is no match;
\* no pattern of the source can capture the empty text).  The quantifier is
\* greedy: the capture is the maximal run, cut to hi characters (hi = 0:
\* no upper limit, as in + and {n,}).
RegexCapture(s, prefixes, cls, lo, hi) ==
    LET hits == RegexHits(s, prefixes, cls, lo) IN
    IF hits = {} THEN ""
    ELSE LET p == MinOf(hits)
             pre == CHOOSE q \in prefixes : MatchesAt(s, p, q) /\ RunLen(s, p + Len(q), cls) >= lo
             n == RunLen(s, p + Len(pre), cls)
             k == IF hi > 0 /\ n > hi THEN hi ELSE n
         IN SubSeq(s, p + Len(pre), p + Len(pre) + k - 1)

\* ======================================================================
\* PlatformUtils
\* ======================================================================

\* PlatformUtils.detect_platform
detect_platform(url) ==
    LET url_lower == Lower(url) IN
    IF Contains(url_lower, "youtube.com") \/ Contains(url_lower, "youtu.be") THEN "youtube"
    ELSE IF Contains(url_lower, "bilibili.com") \/ Contains(url_lower, "b23.tv") THEN "bilibili"
    ELSE "unknown"

\* CompiledPatterns, each as <<prefixes, class, lo, hi, kept part of the prefix>>
YOUTUBE_VIDEO_ID == <<{"?v=", "&v="}, IdChars, 6, 0, "">>
YOUTUBE_SHORT_URL == <<{"youtu.be/"}, IdChars, 6, 0, "">>
YOUTUBE_SHORTS == <<{"/shorts/"}, IdChars, 6, 0, "">>
YOUTUBE_EMBED == <<{"/embed/"}, IdChars, 6, 0, "">>
YOUTUBE_LIVE == <<{"/live/"}, IdChars, 6, 0, "">>
YOUTUBE_PLAYLIST == <<{"?list=", "&list="}, IdChars, 1, 0, "">>
BILIBILI_BV == <<{"/video/BV"}, AlnumChars, 10, 10, "BV">>
BILIBILI_AV == <<{"/video/av"}, DigitChars, 1, 0, "av">>
BILIBILI_VIDEO == <<{"bilibili.com/video/"}, WordChars, 1, 0, "">>

\* pattern.search(url): group(1), or "" when the pattern does not match
PatternSearch(pat, url) ==
    LET cap == RegexCapture(url, pat[1], pat[2], pat[3], pat[4]) IN
    IF cap = "" THEN "" ELSE pat[5] \o cap

\* The first pattern of the list that matches wins.
RECURSIVE FirstMatch(_, _, _)
FirstMatch(pats, i, url) ==
    IF i > Len(pats) THEN ""
    ELSE IF PatternSearch(pats[i], url) # "" THEN PatternSearch(pats[i], url)
    ELSE FirstMatch(pats, i + 1, url)

YoutubePatterns ==
    <<YOUTUBE_VIDEO_ID, YOUTUBE_SHORT_URL, YOUTUBE_SHORTS, YOUTUBE_EMBED,
      YOUTUBE_LIVE, YOUTUBE_PLAYLIST>>

BilibiliPatterns == <<BILIBILI_BV, BILIBILI_AV, BILIBILI_VIDEO>>

\* PlatformUtils.extract_video_id
extract_video_id(url) ==
    LET platform == detect_platform(url)
        yt == FirstMatch(YoutubePatterns, 1, url)
        bl == FirstMatch(BilibiliPatterns, 1, url)
    IN  IF platform = "youtube" /\ yt # "" THEN yt
        ELSE IF platform = "bilibili" /\ bl # "" THEN "bili_" \o bl
        ELSE Strip(url)

\* PlatformUtils.extract_playlist_id
extract_playlist_id(url) ==
    LET m == PatternSearch(YOUTUBE_PLAYLIST, url) IN
    IF m # "" THEN m ELSE Strip(url)

\* ======================================================================
\* Local file matching (MainWindow._has_local_file_for_video)
\* ======================================================================

VIDEO_EXTENSIONS == {".mp4", ".webm", ".mkv", ".flv", ".avi", ".mov", ".m4a"}
IGNORE_SUFFIXES == {".part", ".ytdl", ".temp", ".aria2"}

\* difflib.SequenceMatcher: length of the common run starting at a[i], b[j]
\* inside a[..ahi], b[..bhi] (1-based, inclusive).
RECURSIVE CommonLen(_, _, _, _, _, _)
CommonLen(a, b, i, j, ahi, bhi) ==
    IF i > ahi \/ j > bhi \/ Ch(a, i) # Ch(b, j) THEN 0
    ELSE 1 + CommonLen(a, b, i + 1, j + 1, ahi, bhi)

\* find_longest_match: <<i, j, k>> with k maximal, then i minimal, then j
\* minimal; <<alo, blo, 0>> when nothing matches.
find_longest_match(a, b, alo, ahi, blo, bhi) ==
    LET pairs == (alo..ahi) \X (blo..bhi)
        len(p) == CommonLen(a, b, p[1], p[2], ahi, bhi)
        best == IF pairs = {} THEN 0 ELSE MaxOf({len(p) : p \in pairs})
    IN  IF best = 0 THEN <<alo, blo, 0>>
        ELSE LET besti == MinOf({p[1] : p \in {q \in pairs : len(q) = best}})
                 bestj == MinOf({p[2] : p \in {q \in pairs : len(q) = best /\ q[1] = besti}})
             IN <<besti, bestj, best>>

\* get_matching_blocks: the total size of the matching blocks.
RECURSIVE MatchTotal(_, _, _, _, _, _)
MatchTotal(a, b, alo, ahi, blo, bhi) ==
    LET m == find_longest_match(a, b, alo, ahi, blo, bhi) IN
    IF m[3] = 0 THEN 0
    ELSE m[3]
         + MatchTotal(a, b, alo, m[1] - 1, blo, m[2] - 1)
         + MatchTotal(a, b, m[1] + m[3], ahi, m[2] + m[3], bhi)

\* SequenceMatcher(None, a, b).ratio() >= 0.75, i.e. 2*M/T >= 3/4
RatioAtLeastThreshold(a, b) ==
    LET M == MatchTotal(a, b, 1, Len(a), 1, Len(b))
        T == Len(a) + Len(b)
    IN  IF T = 0 THEN TRUE ELSE 8 * M >= 3 * T

\* PATTERNS.BRACKET_ID.search(name): \[([A-Za-z0-9_-]{8,})\]
BracketId(name) ==
    LET hits == { p \in 1..Len(name) :
                    /\ Ch(name, p) = "["
                    /\ RunLen(name, p + 1, IdChars) >= 8
                    /\ Ch(name, p + 1 + RunLen(name, p + 1, IdChars)) = "]" }
    IN  IF hits = {} THEN ""
        ELSE LET p == MinOf(hits) IN SubSeq(name, p + 1, p + RunLen(name, p + 1, IdChars))

\* lines 2078-2079: the file has a known video extension
HasVideoExtension(name) == \E ext \in VIDEO_EXTENSIONS : EndsWith(Lower(name), ext)

\* lines 2080-2081: the file is a partial / temporary file
HasIgnoredSuffix(name) == \E suf \in IGNORE_SUFFIXES : EndsWith(name, suf)

\* lines 2082-2090: the name of a candidate file matches the id
NameMatchesId(name, video_id_clean) ==
    \/ Contains(name, "[" \o video_id_clean \o "]")
    \/ Contains(name, video_id_clean)
    \/ LET file_id == BracketId(name) IN
       /\ file_id # ""
       /\ \/ Contains(video_id_clean, file_id)
          \/ Contains(file_id, video_id_clean)
          \/ RatioAtLeastThreshold(file_id, video_id_clean)

\* One file of the directory listing decides "found" (lines 2077-2090).
FileMatches(name, video_id) ==
    /\ HasVideoExtension(name)
    /\ ~HasIgnoredSuffix(name)
    /\ NameMatchesId(name, Strip(video_id))

\* ======================================================================
\* Progress lines (BatchDownloadWorker._parse_progress)
\* ======================================================================

\* One step of a regular expression at position p of the text; the result
\* is the position after the step, 0 when the step (or an earlier one,
\* p = 0) does not match.  The classes of neighbouring steps of the
\* patterns below are disjoint, so the greedy match is the only one.

\* a literal (the empty literal matches everywhere)
SkipLit(s, p, lit) ==
    IF p > 0 /\ (lit = "" \/ MatchesAt(s, p, lit)) THEN p + Len(lit) ELSE 0

\* [cls]+
SkipMany1(s, p, cls) == IF p > 0 /\ RunLen(s, p, cls) >= 1 THEN p + RunLen(s, p, cls) ELSE 0

\* [cls]*
SkipMany0(s, p, cls) == IF p > 0 THEN p + RunLen(s, p, cls) ELSE 0

\* [cls]?
SkipOpt(s, p, cls) == IF p > 0 /\ InClass(Ch(s, p), cls) THEN p + 1 ELSE p

\* PATTERNS.PROGRESS_PERCENT  (\d+\.\d+)%  matched at p: the position after
\* the match
PercentEnd(line, p) ==
    SkipLit(line, SkipMany1(line, SkipLit(line, SkipMany1(line, p, DigitChars), "."),
                            DigitChars), "%")

PercentGroup(line, p) == SubSeq(line, p, PercentEnd(line, p) - 2)

\* word\s+  matched at p: the position where group 1 starts
AmountStart(line, p, word) == SkipMany1(line, SkipLit(line, p, word), " ")

\* [\d.]+\s*[KMGT]?i?B<tail>  matched at q: the position after the match
AmountEnd(line, q, tail) ==
    SkipLit(line,
        SkipLit(line,
            SkipOpt(line,
                SkipOpt(line,
                    SkipMany0(line, SkipMany1(line, q, DigitChars \o "."), " "),
                    "KMGT"),
                "i"),
            "B"),
        tail)

\* PATTERNS.PROGRESS_SIZE   of\s+([\d.]+\s*[KMGT]?i?B)     is ("of", "")
\* PATTERNS.PROGRESS_SPEED  at\s+([\d.]+\s*[KMGT]?i?B/s)   is ("at", "/s")
AmountMatches(line, p, word, tail) == AmountEnd(line, AmountStart(line, p, word), tail) > 0

AmountGroup(line, p, word, tail) ==
    SubSeq(line, AmountStart(line, p, word),
           AmountEnd(line, AmountStart(line, p, word), tail) - 1)

\* PATTERNS.PROGRESS_ETA  ETA\s+(\d+:\d+)
EtaStart(line, p) == SkipMany1(line, SkipLit(line, p, "ETA"), " ")

EtaEnd(line, q) ==
    SkipMany1(line, SkipLit(line, SkipMany1(line, q, DigitChars), ":"), DigitChars)

EtaGroup(line, p) == SubSeq(line, EtaStart(line, p), EtaEnd(line, EtaStart(line, p)) - 1)

\* pattern.search(line).group(1) of the leftmost match, "" without a match
PercentSearch(line) ==
    LET hits == {p \in 1..Len(line) : PercentEnd(line, p) > 0} IN
    IF hits = {} THEN "" ELSE PercentGroup(line, MinOf(hits))

AmountSearch(line, word, tail) ==
    LET hits == {p \in 1..Len(line) : AmountMatches(line, p, word, tail)} IN
    IF hits = {} THEN "" ELSE AmountGroup(line, MinOf(hits), word, tail)

EtaSearch(line) ==
    LET hits == {p \in 1..Len(line) : EtaEnd(line, EtaStart(line, p)) > 0} IN
    IF hits = {} THEN "" ELSE EtaGroup(line, MinOf(hits))

\* " | ".join(parts)
RECURSIVE JoinParts(_, _)
JoinParts(parts, sep) ==
    IF parts = <<>> THEN ""
    ELSE IF Len(parts) = 1 THEN parts[1]
    ELSE parts[1] \o sep \o JoinParts(Tail(parts), sep)

\* BatchDownloadWorker._parse_progress
parse_progress(line) ==
    LET percent == PercentSearch(line)
        size == AmountSearch(line, "of", "")
        speed == AmountSearch(line, "at", "/s")
        eta == EtaSearch(line)
        parts == (IF percent # "" THEN <<" " \o percent \o "%">> ELSE <<>>)
                 \o (IF size # "" THEN <<" " \o size>> ELSE <<>>)
                 \o (IF speed # "" THEN <<" " \o speed>> ELSE <<>>)
                 \o (IF eta # "" THEN <<" " \o eta>> ELSE <<>>)
    IN  IF Contains(line, "%") THEN JoinParts(parts, " | ") ELSE ""

\* ======================================================================
\* Program constants and bounds
\* ======================================================================

\* CONSTANTS.DEFAULT_RETRY_COUNT
DEFAULT_RETRY_COUNT == 3
\* CONSTANTS.RETRY_DELAY
RETRY_DELAY == 2

\* Largest max_retries given to a DownloadWorker
MaxRetriesArg == 3
\* Most output lines one external process writes
MaxLines == 2

\* ======================================================================
\* State
\* ======================================================================

VARIABLES
    dj,               \* the DownloadWorker: fields, position in run(), emitted signals
    djproc,           \* its external downloader process (self.process)
    frames,           \* per thread: the running call of is_downloaded / add_to_download_history
    download_history, \* MainWindow.download_history: <<path, video_id>> -> entry
    history_file,     \* the content of download_history.json
    history_lock,     \* holder of MainWindow._history_lock, or "free"
    files,            \* the directories on disk: path -> names of the files in it
    cwd_ok,           \* the process's working directory still exists
    bj,               \* per job: the BatchDownloadWorker's fields and position in run()
    bjproc,           \* per job: the external downloader process of the item in flight
    playlist_states,  \* MainWindow.playlist_states: <<path, playlist_id>> -> snapshot
    playlist_file,    \* the content of playlist_states.json
    sync,             \* the running call of detect_playlist_updates
    dstats,           \* a DownloadStats object, its dict form, and the object read back
    built             \* a worker about to build its downloader command, and the command

djVars == <<dj, djproc>>
ledgerVars == <<frames, download_history, history_file, history_lock, files, cwd_ok>>
batchVars == <<bj, bjproc>>
syncVars == <<playlist_states, playlist_file, sync, dstats, built>>

vars ==
    <<dj, djproc, frames, download_history, history_file, history_lock, files, cwd_ok,
      bj, bjproc, playlist_states, playlist_file, sync, dstats, built>>

\* ======================================================================
\* The external downloader process (subprocess.Popen)
\* ======================================================================

NoProcess ==
    [spawned |-> FALSE, alive |-> FALSE, returncode |-> 0,
     pending |-> <<>>, written |-> 0, sigterm |-> FALSE]

\* subprocess.Popen(cmd, ...) succeeded
Spawned ==
    [spawned |-> TRUE, alive |-> TRUE, returncode |-> 0,
     pending |-> <<>>, written |-> 0, sigterm |-> FALSE]

\* process.terminate(): SIGTERM is sent to a live process; an exited process
\* is left alone.
Terminate(p) == IF p.alive THEN [p EXCEPT !.sigterm = TRUE] ELSE p

\* (mutation of Kill: the signal is not sent)
KillNotSent(p) == p

\* process.kill(): SIGKILL cannot be handled.
Kill(p) == IF p.alive THEN [p EXCEPT !.alive = FALSE, !.returncode = -9] ELSE p

\* The exit codes a live process can end with: its own (0 success, 1
\* failure) or, once SIGTERM was sent, death by the signal (the signal can
\* reach a process that is already past its last write and about to exit).
ExitCodes(p) == IF p.sigterm THEN {0, 1, -15} ELSE {0, 1}

ProcWrite(p, line) == [p EXCEPT !.pending = Append(@, line), !.written = @ + 1]

ProcExit(p, rc) == [p EXCEPT !.alive = FALSE, !.returncode = rc]

\* ======================================================================
\* DownloadWorker
\* ======================================================================

\* line 463: self.max_retries = max_retries or CONSTANTS.DEFAULT_RETRY_COUNT
\* (None is modelled by 0: both are falsy)
InitMaxRetries(max_retries) ==
    IF max_retries = 0 THEN DEFAULT_RETRY_COUNT ELSE max_retries

\* (mutation of RetryWait: a constant backoff)
RetryWaitConstant(attempt) == RETRY_DELAY

\* line 492: time.sleep(CONSTANTS.RETRY_DELAY * attempt)
RetryWait(attempt) == RETRY_DELAY * attempt

\* line 487: the cancellation check at the top of each iteration
CancelSeenAtLoopTop(is_cancelled) == is_cancelled

\* line 494: if success or self._is_cancelled
ShouldFinish(success, is_cancelled) == success \/ is_cancelled

DJInitFor(max_retries) ==
    [max_retries  |-> InitMaxRetries(max_retries),
     is_cancelled |-> FALSE,
     pc           |-> "ready",
     attempt      |-> 0,
     message      |-> "unbound",
     launches     |-> 0,
     waits        |-> <<>>,
     finished     |-> <<>>,
     cancel_at    |-> "never",
     launches_at_cancel |-> 0,
     cancel_pc    |-> "idle"]

\* download_finished.emit(video_id, success, message)
Emit(d, success, message) ==
    [d EXCEPT !.finished = Append(@, [success |-> success, message |-> message]),
              !.pc = "done"]

\* lines 493-496: the result of one _download_once() comes back to run()
AfterAttempt(d, success, message) ==
    IF ShouldFinish(success, d.is_cancelled)
    THEN Emit([d EXCEPT !.message = message], success, message)
    ELSE [d EXCEPT !.message = message, !.attempt = @ + 1, !.pc = "loop"]

\* DownloadWorker.cancel (lines 470-476), called from another thread: the
\* flag is set and, if self.process is set, the process is sent SIGTERM and
\* the caller enters process.wait(timeout=5); cancel_pc is where the caller
\* is ("idle" before any call, "waiting" in wait, "returned", "raised").
\* terminate() raising OSError (lines 477-481) is not injected.
DJCancel ==
    /\ dj.cancel_pc # "waiting"
    /\ dj' = [dj EXCEPT !.is_cancelled = TRUE,
                        !.cancel_at = IF dj.is_cancelled THEN @ ELSE dj.pc,
                        !.launches_at_cancel = IF dj.is_cancelled THEN @ ELSE dj.launches,
                        !.cancel_pc = IF djproc.spawned THEN "waiting" ELSE "returned"]
    /\ djproc' = IF djproc.spawned THEN Terminate(djproc) ELSE djproc
    /\ UNCHANGED <<ledgerVars, batchVars, syncVars>>

\* line 476: the process has exited, process.wait(timeout=5) returns and so
\* does cancel()
DJCancelWaitReturns ==
    /\ dj.cancel_pc = "waiting"
    /\ ~djproc.alive
    /\ dj' = [dj EXCEPT !.cancel_pc = "returned"]
    /\ UNCHANGED djproc
    /\ UNCHANGED <<ledgerVars, batchVars, syncVars>>

\* line 476: five seconds have passed and the process has not exited:
\* process.wait raises subprocess.TimeoutExpired, which is not an OSError,
\* so the except clause of line 477 does not take it and it leaves cancel()
DJCancelWaitTimeout ==
    /\ dj.cancel_pc = "waiting"
    /\ djproc.alive
    /\ dj' = [dj EXCEPT !.cancel_pc = "raised"]
    /\ UNCHANGED djproc
    /\ UNCHANGED <<ledgerVars, batchVars, syncVars>>

\* QThread.start(): run() begins (line 485)
DJStart ==
    /\ dj.pc = "ready"
    /\ dj' = [dj EXCEPT !.pc = "loop"]
    /\ UNCHANGED djproc
    /\ UNCHANGED <<ledgerVars, batchVars, syncVars>>

\* lines 486-492 and 497: one pass through the head of the for loop
DJLoopHead ==
    /\ dj.pc = "loop"
    /\ dj' =
         IF dj.attempt >= dj.max_retries
         THEN \* range exhausted, line 497 reads `message`
              IF dj.message = "unbound"
              THEN [dj EXCEPT !.pc = "crashed"]
              ELSE Emit(dj, FALSE, "exhausted")
         ELSE IF CancelSeenAtLoopTop(dj.is_cancelled)
         THEN Emit(dj, FALSE, "cancelled")
         ELSE IF dj.attempt > 0
         THEN [dj EXCEPT !.pc = "sleep", !.waits = Append(@, RetryWait(dj.attempt))]
         ELSE [dj EXCEPT !.pc = "popen"]
    /\ UNCHANGED djproc
    /\ UNCHANGED <<ledgerVars, batchVars, syncVars>>

\* line 492: time.sleep returns
DJWake ==
    /\ dj.pc = "sleep"
    /\ dj' = [dj EXCEPT !.pc = "popen"]
    /\ UNCHANGED djproc
    /\ UNCHANGED <<ledgerVars, batchVars, syncVars>>

\* lines 501-519: subprocess.Popen starts the downloader
DJPopen ==
    /\ dj.pc = "popen"
    /\ dj' = [dj EXCEPT !.pc = "stream", !.launches = @ + 1]
    /\ djproc' = Spawned
    /\ UNCHANGED <<ledgerVars, batchVars, syncVars>>

\* lines 510, 530-531: subprocess.Popen raises OSError
DJPopenFails ==
    /\ dj.pc = "popen"
    /\ dj' = AfterAttempt([dj EXCEPT !.launches = @ + 1], FALSE, "error")
    /\ UNCHANGED djproc
    /\ UNCHANGED <<ledgerVars, batchVars, syncVars>>

\* lines 520-524: readline returns a line
DJReadLine ==
    /\ dj.pc = "stream"
    /\ djproc.pending # <<>>
    /\ IF dj.is_cancelled
       THEN /\ djproc' = Terminate([djproc EXCEPT !.pending = Tail(@)])
            /\ dj' = AfterAttempt(dj, FALSE, "cancelled")
       ELSE /\ djproc' = [djproc EXCEPT !.pending = Tail(@)]
            /\ UNCHANGED dj
    /\ UNCHANGED <<ledgerVars, batchVars, syncVars>>

\* (mutation of ExitedWithZero: the exit code is not looked at)
ExitCodeIgnored(returncode) == TRUE

\* line 526: if self.process.returncode == 0
ExitedWithZero(returncode) == returncode = 0

\* lines 520, 525-529: readline returns "" (end of output), process.wait()
DJReadEOF ==
    /\ dj.pc = "stream"
    /\ djproc.pending = <<>>
    /\ ~djproc.alive
    /\ dj' = IF ExitedWithZero(djproc.returncode)
             THEN AfterAttempt(dj, TRUE, "completed")
             ELSE AfterAttempt(dj, FALSE, "failed_rc")
    /\ UNCHANGED djproc
    /\ UNCHANGED <<ledgerVars, batchVars, syncVars>>

\* the downloader writes one line of output
DJProcWrite ==
    /\ djproc.alive
    /\ djproc.written < MaxLines
    /\ djproc' = ProcWrite(djproc, "[download]  50.0% of 10.00MiB at 1.00MiB/s ETA 00:05")
    /\ UNCHANGED dj
    /\ UNCHANGED <<ledgerVars, batchVars, syncVars>>

\* the downloader exits
DJProcExit ==
    /\ djproc.alive
    /\ \E rc \in ExitCodes(djproc) : djproc' = ProcExit(djproc, rc)
    /\ UNCHANGED dj
    /\ UNCHANGED <<ledgerVars, batchVars, syncVars>>

DJNext ==
    \/ DJCancel
    \/ DJCancelWaitReturns
    \/ DJCancelWaitTimeout
    \/ DJStart
    \/ DJLoopHead
    \/ DJWake
    \/ DJPopen
    \/ DJPopenFails
    \/ DJReadLine
    \/ DJReadEOF
    \/ DJProcWrite
    \/ DJProcExit

\* ----------------------------------------------------------------------
\* Claims about the DownloadWorker (checked under SpecDJ)
\* ----------------------------------------------------------------------

DJNoSuccessReported == \A i \in DOMAIN dj.finished : ~dj.finished[i].success

ExhaustedEvent == [success |-> FALSE, message |-> "exhausted"]
CancelledEvent == [success |-> FALSE, message |-> "cancelled"]

\* C1: a DownloadWorker with max_retries = n >= 1 that is never cancelled and
\* whose every attempt fails has, when run() returns, invoked the downloader
\* exactly n times, slept RETRY_DELAY * k before attempt k (k = 1..n-1:
\* strictly increasing, nothing before the first attempt) and emitted exactly
\* one download_finished event, the exhausted failure.
C1_ExhaustedAfterNAttempts ==
    (/\ dj.pc = "done"
     /\ dj.max_retries >= 1
     /\ ~dj.is_cancelled
     /\ DJNoSuccessReported)
    => /\ dj.launches = dj.max_retries
       /\ dj.waits = [k \in 1..(dj.max_retries - 1) |-> RETRY_DELAY * k]
       /\ \A k \in 1..(Len(dj.waits) - 1) : dj.waits[k] < dj.waits[k + 1]
       /\ dj.finished = <<ExhaustedEvent>>

C1_Witness ==
    /\ dj.pc = "done"
    /\ dj.max_retries = 3
    /\ ~dj.is_cancelled
    /\ dj.launches = 3
    /\ dj.waits = <<2, 4>>
    /\ dj.finished = <<ExhaustedEvent>>

CompletedEvent == [success |-> TRUE, message |-> "completed"]

\* the step in which one attempt of the DownloadWorker ends
AttemptEnds == dj.pc = "stream" /\ dj'.pc # "stream"

\* the downloader of the attempt has exited with code 0
ExitedZero == ~djproc.alive /\ djproc.returncode = 0

\* success is final: it is the only event, and nothing is launched, waited
\* for or reported once the job is done
SuccessIsTerminal ==
    /\ [](\A i \in DOMAIN dj.finished :
             dj.finished[i].success => dj.pc = "done" /\ dj.finished = <<CompletedEvent>>)
    /\ [][dj.pc = "done" =>
             /\ dj'.pc = "done"
             /\ dj'.launches = dj.launches
             /\ dj'.waits = dj.waits
             /\ dj'.finished = dj.finished]_vars

\* C27 (as claimed): an attempt whose downloader has exited with code 0
\* ends with the job done and success reported once, and success is never
\* reported for an attempt whose exit code is not 0.
C27_ExitZeroIsSuccess ==
    /\ SuccessIsTerminal
    /\ [][AttemptEnds =>
             IF ExitedZero
             THEN dj'.pc = "done" /\ dj'.finished = <<CompletedEvent>>
             ELSE \A i \in DOMAIN dj'.finished : ~dj'.finished[i].success]_vars

\* C27 (amended): an attempt that reads the downloader's output to its end
\* and finds exit code 0 ends with the job done and success reported once,
\* with no backoff wait and no attempt after it; an attempt that is cut
\* short because a cancellation is seen when a line is read reports no
\* success, whatever the exit code of the downloader, and success is never
\* reported for an attempt whose exit code is not 0.
C27_ExitZeroAtEndOfOutputIsSuccess ==
    /\ SuccessIsTerminal
    /\ [][AttemptEnds =>
             IF djproc.pending = <<>> /\ ExitedZero
             THEN dj'.pc = "done" /\ dj'.finished = <<CompletedEvent>>
             ELSE \A i \in DOMAIN dj'.finished : ~dj'.finished[i].success]_vars

\* the second attempt of a job ended with exit code 0 after the first one
\* had failed: one backoff wait, two launches, success reported once
C27_Witness ==
    /\ dj.pc = "done"
    /\ dj.finished = <<CompletedEvent>>
    /\ dj.launches = 2
    /\ dj.waits = <<RETRY_DELAY>>
    /\ ~djproc.alive
    /\ djproc.returncode = 0
    /\ dj.max_retries = 3

\* C8 (as claimed): once cancel() was called before the first attempt or
\* during a retry backoff wait, no further downloader process is launched and
\* the job ends with the Cancelled event.
C8_CancelBetweenAttemptsLaunchesNothing ==
    dj.cancel_at \in {"ready", "sleep"}
    => /\ dj.launches = dj.launches_at_cancel
       /\ dj.pc = "done" => dj.finished = <<CancelledEvent>>

\* C9 (as claimed): when cancel() was called while an attempt was streaming,
\* no further attempt is made and the one terminal event is neither a
\* success nor the exhausted failure.
C9_CancelWhileStreamingNeverSucceeds ==
    (dj.cancel_at = "stream" /\ dj.pc = "done")
    => /\ dj.launches = dj.launches_at_cancel
       /\ Len(dj.finished) = 1
       /\ ~dj.finished[1].success
       /\ dj.finished[1] # ExhaustedEvent

\* run() of the DownloadWorker is over: it returned or an exception left it
RunIsOver == dj.pc \in {"done", "crashed"}

\* C40: a run of a DownloadWorker emits download_finished exactly once,
\* however it ends and whatever integer max_retries was given to the
\* constructor (0 and None standing for DEFAULT_RETRY_COUNT attempts).
C40_ExactlyOneTerminalEvent ==
    /\ Len(dj.finished) <= 1
    /\ RunIsOver => Len(dj.finished) = 1

\* the grace period of cancel() ends: the caller leaves process.wait
GracePeriodEnds == dj.cancel_pc = "waiting" /\ dj'.cancel_pc # "waiting"

\* C32: when a DownloadWorker is cancelled while its process runs, the
\* process is sent SIGTERM, waited for during the grace period, and no
\* longer alive when the wait ends: it has exited by itself or is killed.
C32_KilledWhenGracePeriodEnds ==
    [][/\ (DJCancel /\ djproc.alive) => (djproc'.sigterm /\ dj'.cancel_pc = "waiting")
       /\ GracePeriodEnds => ~djproc'.alive]_vars

\* ======================================================================
\* Paths, directories and the download history (MainWindow)
\* ======================================================================

Jobs == {"job1", "job2"}
Threads == Jobs \cup {"main"}

\* os.getcwd()
Cwd == "/home"

RECURSIVE StripTrailingSlashes(_)
StripTrailingSlashes(path) ==
    IF Len(path) > 1 /\ Ch(path, Len(path)) = "/"
    THEN StripTrailingSlashes(SubSeq(path, 1, Len(path) - 1))
    ELSE path

\* os.path.abspath raises OSError (FileNotFoundError from os.getcwd) for a
\* relative path when the working directory was removed.
NormalizeRaises(path, cwdOk) == path # "" /\ Ch(path, 1) # "/" /\ ~cwdOk

\* MainWindow.normalize_path on POSIX, for paths without "." and ".."
\* segments: normcase is the identity, abspath joins a relative path to the
\* working directory, normpath drops trailing separators.
normalize_path(path) ==
    IF path = "" THEN ""
    ELSE IF Ch(path, 1) = "/" THEN StripTrailingSlashes(path)
    ELSE StripTrailingSlashes(Cwd \o "/" \o path)

\* os.path.isdir(path)
IsDir(path) == path \in DOMAIN files

\* os.listdir(path)
ListDir(path) == files[path]

\* The names a download directory can hold
FileNames ==
    {"U - T [abcdefghij].mp4",
     "U - T [abcdefghij].mp4.part",
     "U - T [BV1xx411c7mD].MKV",
     "abcdefghij.txt"}

\* The URLs given to the program, in the order a batch holds them
UrlPool ==
    <<"https://www.youtube.com/watch?v=abcdefghij",
      "https://www.bilibili.com/video/BV1xx411c7mD",
      "https://youtu.be/abcdefghiX">>

\* The video ids the program meets: those of the URLs, and those a playlist
\* listing reports (an entry without id is known by its url)
VideoIds ==
    {extract_video_id(UrlPool[i]) : i \in 1..Len(UrlPool)}
    \cup {UrlPool[i] : i \in 1..Len(UrlPool)}
    \cup {"klmnopqrstu"}

\* extract_video_id, computed once for every URL of the pool
VideoIdOf ==
    [url \in {UrlPool[i] : i \in 1..Len(UrlPool)} |-> extract_video_id(url)] @@ << >>

\* FileMatches, computed once for every name and id
FileMatchTable ==
    [p \in FileNames \X VideoIds |-> FileMatches(p[1], p[2])] @@ << >>

\* MainWindow._has_local_file_for_video (lines 2070-2092) on a listing
has_local_file_in(names, video_id) == \E name \in names : FileMatchTable[<<name, video_id>>]

\* MainWindow._has_local_file_for_video (download_path already normalized)
has_local_file_for_video(download_path, video_id) ==
    /\ download_path # ""
    /\ IsDir(download_path)
    /\ has_local_file_in(ListDir(download_path), video_id)

HistoryKey(download_path, video_id) == <<download_path, video_id>>

\* (mutation of HistoryWithout: every entry of the key's directory goes)
HistoryWithoutPath(history, key) ==
    [k \in {h \in DOMAIN history : h[1] # key[1]} |-> history[k]]

\* lines 2062-2065: del self.download_history[path][video_id], and the
\* directory's dict with it once it is empty
HistoryWithout(history, key) == [k \in DOMAIN history \ {key} |-> history[k]]

\* (mutation of HistoryWith: the entry replaces the whole history)
HistoryWithOnly(history, key, entry) == [k \in {key} |-> entry]

\* lines 2047-2053: self.download_history[path][video_id] = {...}
HistoryWith(history, key, entry) ==
    [k \in DOMAIN history \cup {key} |-> IF k = key THEN entry ELSE history[k]]

\* (mutation of is_downloaded_locked: a history entry alone counts as
\* downloaded and is kept)
is_downloaded_locked_keeps_entry(history, key) ==
    [history |-> history, result |-> key \in DOMAIN history, saved |-> FALSE]

\* is_downloaded, lines 2061-2068: the body of `with self._history_lock`.
\* history maps <<path, video_id>> to the entry; the nested dict of the
\* source, whose empty inner dicts are deleted, holds the same keys.
is_downloaded_locked(history, key) ==
    IF key \in DOMAIN history
    THEN [history |-> HistoryWithout(history, key), result |-> FALSE, saved |-> TRUE]
    ELSE [history |-> history, result |-> FALSE, saved |-> FALSE]

\* add_to_download_history, lines 2047-2054
add_locked(history, key, url, title) ==
    HistoryWith(history, key, [url |-> url, title |-> title])

IdleFrame ==
    [fn |-> "none", pc |-> "idle", path |-> "", norm |-> "", video_id |-> "",
     url |-> "", title |-> "", seen |-> {}, had_entry |-> FALSE, result |-> FALSE]

CallFrame(fn, path, video_id, url, title) ==
    [IdleFrame EXCEPT !.fn = fn, !.pc = "call", !.path = path,
                      !.video_id = video_id, !.url = url, !.title = title]

\* is_downloaded, lines 2057-2059: normalize the path, look for a local file
IsDownloadedBegin(t) ==
    /\ frames[t].fn = "is_downloaded"
    /\ frames[t].pc = "call"
    /\ LET f == frames[t]
           norm == normalize_path(f.path)
           listing == IF norm # "" /\ IsDir(norm) THEN ListDir(norm) ELSE {}
       IN  frames' = [frames EXCEPT ![t] =
             IF NormalizeRaises(f.path, cwd_ok) THEN [f EXCEPT !.pc = "raised"]
             ELSE IF has_local_file_for_video(norm, f.video_id)
             THEN [f EXCEPT !.norm = norm, !.seen = listing, !.result = TRUE, !.pc = "ret"]
             ELSE [f EXCEPT !.norm = norm, !.seen = listing, !.pc = "lock"]]
    /\ UNCHANGED <<download_history, history_file, history_lock, files, cwd_ok>>
    /\ UNCHANGED <<djVars, batchVars, syncVars>>

\* add_to_download_history, line 2045
AddBegin(t) ==
    /\ frames[t].fn = "add"
    /\ frames[t].pc = "call"
    /\ LET f == frames[t] IN
       frames' = [frames EXCEPT ![t] =
             IF NormalizeRaises(f.path, cwd_ok) THEN [f EXCEPT !.pc = "raised"]
             ELSE [f EXCEPT !.norm = normalize_path(f.path), !.pc = "lock"]]
    /\ UNCHANGED <<download_history, history_file, history_lock, files, cwd_ok>>
    /\ UNCHANGED <<djVars, batchVars, syncVars>>

\* with self._history_lock: (lines 2046, 2060)
AcquireHistoryLock(t) ==
    /\ frames[t].pc = "lock"
    /\ history_lock = "free"
    /\ history_lock' = t
    /\ frames' = [frames EXCEPT ![t].pc = "locked"]
    /\ UNCHANGED <<download_history, history_file, files, cwd_ok>>
    /\ UNCHANGED <<djVars, batchVars, syncVars>>

\* is_downloaded, lines 2061-2068, then the lock is released
IsDownloadedLocked(t) ==
    /\ frames[t].fn = "is_downloaded"
    /\ frames[t].pc = "locked"
    /\ LET f == frames[t]
           key == HistoryKey(f.norm, f.video_id)
           r == is_downloaded_locked(download_history, key)
       IN  /\ download_history' = r.history
           /\ history_file' = IF r.saved THEN r.history ELSE history_file
           /\ frames' = [frames EXCEPT ![t] =
                [f EXCEPT !.had_entry = key \in DOMAIN download_history,
                          !.result = r.result, !.pc = "ret"]]
    /\ history_lock' = "free"
    /\ UNCHANGED <<files, cwd_ok>>
    /\ UNCHANGED <<djVars, batchVars, syncVars>>

\* add_to_download_history, lines 2047-2054, then the lock is released
AddLocked(t) ==
    /\ frames[t].fn = "add"
    /\ frames[t].pc = "locked"
    /\ LET f == frames[t]
           key == HistoryKey(f.norm, f.video_id)
       IN  /\ download_history' = add_locked(download_history, key, f.url, f.title)
           /\ history_file' = download_history'
           /\ frames' = [frames EXCEPT ![t] = [f EXCEPT !.pc = "ret"]]
    /\ history_lock' = "free"
    /\ UNCHANGED <<files, cwd_ok>>
    /\ UNCHANGED <<djVars, batchVars, syncVars>>

\* ----------------------------------------------------------------------
\* The file system around the program
\* ----------------------------------------------------------------------


\* a file is deleted (by the user or another program)
EnvDeleteFile ==
    /\ \E d \in DOMAIN files : \E n \in files[d] :
         files' = [files EXCEPT ![d] = @ \ {n}]
    /\ UNCHANGED <<frames, download_history, history_file, history_lock, cwd_ok>>
    /\ UNCHANGED <<djVars, batchVars, syncVars>>

\* a file appears in a directory
EnvCreateFile ==
    /\ \E d \in DOMAIN files : \E n \in FileNames \ files[d] :
         files' = [files EXCEPT ![d] = @ \cup {n}]
    /\ UNCHANGED <<frames, download_history, history_file, history_lock, cwd_ok>>
    /\ UNCHANGED <<djVars, batchVars, syncVars>>

\* the working directory is removed
EnvRemoveCwd ==
    /\ cwd_ok
    /\ cwd_ok' = FALSE
    /\ UNCHANGED <<frames, download_history, history_file, history_lock, files>>
    /\ UNCHANGED <<djVars, batchVars, syncVars>>

\* ----------------------------------------------------------------------
\* A caller of the history functions on the main thread
\* ----------------------------------------------------------------------

CallerPaths == {"/dl/", "dl"}
CallerIds == {"abcdefghij", "bili_BV1xx411c7mD"}

UrlOfId(video_id) ==
    IF video_id = "abcdefghij" THEN "https://www.youtube.com/watch?v=abcdefghij"
    ELSE "https://www.bilibili.com/video/BV1xx411c7mD"

MainCalls ==
    /\ frames["main"].pc = "idle"
    /\ \E fn \in {"is_downloaded", "add"}, path \in CallerPaths, id \in CallerIds :
         frames' = [frames EXCEPT !["main"] = CallFrame(fn, path, id, UrlOfId(id), "T")]
    /\ UNCHANGED <<download_history, history_file, history_lock, files, cwd_ok>>
    /\ UNCHANGED <<djVars, batchVars, syncVars>>

MainReturns ==
    /\ frames["main"].pc \in {"ret", "raised"}
    /\ frames' = [frames EXCEPT !["main"] = IdleFrame]
    /\ UNCHANGED <<download_history, history_file, history_lock, files, cwd_ok>>
    /\ UNCHANGED <<djVars, batchVars, syncVars>>

\* The histories download_history.json can hold at start-up
\* (load_download_history normalizes the keys)
InitialHistories ==
    LET e(id) == [url |-> UrlOfId(id), title |-> "None"]
        keys == {<<"/dl", "abcdefghij">>, <<"/dl", "bili_BV1xx411c7mD">>, <<"/home/dl", "abcdefghij">>}
    IN  { [k \in K |-> e(k[2])] : K \in SUBSET keys }

LedgerNext ==
    \/ MainCalls
    \/ MainReturns
    \/ \E t \in Threads : IsDownloadedBegin(t)
    \/ \E t \in Threads : AddBegin(t)
    \/ \E t \in Threads : AcquireHistoryLock(t)
    \/ \E t \in Threads : IsDownloadedLocked(t)
    \/ \E t \in Threads : AddLocked(t)
    \/ EnvDeleteFile
    \/ EnvCreateFile
    \/ EnvRemoveCwd

\* ----------------------------------------------------------------------
\* Claims about is_downloaded (checked under SpecLedger)
\* ----------------------------------------------------------------------

Returned(t) == frames[t].fn = "is_downloaded" /\ frames[t].pc = "ret"

\* a partial / temporary file, by its suffix
IsPartialName(name) == \E suf \in {".part", ".ytdl", ".temp", ".aria2"} : EndsWith(name, suf)

\* a file with a known video extension
IsVideoName(name) ==
    \E ext \in {".mp4", ".webm", ".mkv", ".flv", ".avi", ".mov", ".m4a"} :
        EndsWith(Lower(name), ext)

\* the names that are finished video files for an id
FinishedFilesFor ==
    [id \in VideoIds |->
        {name \in FileNames :
            IsVideoName(name) /\ ~IsPartialName(name) /\ NameMatchesId(name, Strip(id))}]
    @@ << >>

PartialNames == {name \in FileNames : IsPartialName(name)}

\* the listing is_downloaded looked at holds a finished video file for the id
SawMatchingFile(t) == frames[t].seen \cap FinishedFilesFor[frames[t].video_id] # {}

\* C4 (as claimed): is_downloaded returns true if a matching local file
\* exists or a history entry exists for (path, id).
C4_TrueOnFileOrEntry ==
    \A t \in Threads :
        Returned(t) => ((SawMatchingFile(t) \/ frames[t].had_entry) => frames[t].result)

\* C4 (amended): is_downloaded returns true exactly when the directory holds
\* a file with a known video extension, not a partial/temp file, that matches
\* the id; a history entry alone does not make it true, and neither do
\* partial/temp files alone.
C4_TrueIffMatchingFile ==
    \A t \in Threads :
        Returned(t) =>
            /\ frames[t].result <=> SawMatchingFile(t)
            /\ frames[t].seen \subseteq PartialNames => ~frames[t].result

\* the .part sibling is in the directory next to the finished file, and a
\* call returned true; another call, with an entry but no file, returned false
C4_Witness ==
    /\ Returned("main")
    /\ frames["main"].result
    /\ frames["main"].video_id = "abcdefghij"
    /\ frames["main"].seen = {"U - T [abcdefghij].mp4", "U - T [abcdefghij].mp4.part"}

DEFAULT_TIMEOUT == 10800

\* Most URLs one batch holds
MaxItems == 2

\* The lines the downloader writes for one item
BatchLines ==
    {"[download]  50.0% of 10.00MiB at 1.00MiB/s ETA 00:05",
     "[download] 100% of 10.00MiB in 00:05",
     "ERROR: Video unavailable"}

\* (mutation of StopSeenAtLoopTop: the loop never looks at the flag)
StopIgnoredAtLoopTop(is_running) == FALSE

\* lines 617 and 621: if not self._is_running: break
StopSeenAtLoopTop(is_running) == ~is_running

\* lines 634 and 646: if self.main_window and download_path
UsesHistory(b) == b.has_main_window /\ b.download_path # ""

\* BatchDownloadWorker.__init__ (lines 600-608); the other fields are the
\* position in run(), the locals of _download_single (ended: how the
\* downloader's run came to its end) and what was observed (stopped_at:
\* the item at the first stop(); waited_at: the current item, once the pause
\* loop was entered before it; progress: the strings emitted for the current
\* item; parsed: how many of its lines carried a progress string)
BJInitFor(urls, cfg) ==
    [urls            |-> urls,
     download_path   |-> cfg.download_path,
     download_timeout |-> cfg.download_timeout,
     has_main_window |-> cfg.has_main_window,
     is_running      |-> TRUE,
     is_paused       |-> FALSE,
     stats           |-> [success |-> 0, failed |-> 0, skipped |-> 0],
     pc              |-> "ready",
     idx             |-> 0,
     last_progress   |-> "",
     has_successful_download |-> FALSE,
     ended           |-> "",
     return_code     |-> 0,
     progress        |-> <<>>,
     parsed          |-> 0,
     lookup          |-> [looked |-> FALSE, seen |-> {}, had_entry |-> FALSE],
     task_finished   |-> <<>>,
     error_logged    |-> FALSE,
     launched        |-> <<>>,
     delays          |-> <<>>,
     items           |-> <<>>,
     stopped_at      |-> -1,
     waited_at       |-> -1]

\* a job that was never created
BJAbsent ==
    [BJInitFor(<<>>, [download_path |-> "", download_timeout |-> 0, has_main_window |-> FALSE])
        EXCEPT !.pc = "absent"]

\* lines 655-663: the summary is logged and task_finished.emit(self.stats)
Finish(b) ==
    [b EXCEPT !.task_finished = Append(@, b.stats), !.pc = "done", !.waited_at = -1]

\* the for statement takes the next URL
NextItem(b) == [b EXCEPT !.idx = @ + 1, !.pc = "loop_top", !.waited_at = -1]

\* (mutation of AfterItem: the delay is taken after the last item too)
AfterItemAlwaysDelays(b) ==
    IF b.is_running
    THEN [b EXCEPT !.pc = "delay", !.delays = Append(@, b.idx)]
    ELSE NextItem(b)

\* lines 652-653: the delay between two items
AfterItem(b) ==
    IF b.idx < Len(b.urls) /\ b.is_running
    THEN [b EXCEPT !.pc = "delay", !.delays = Append(@, b.idx)]
    ELSE NextItem(b)

ItemRecord(b, outcome) ==
    [idx |-> b.idx, outcome |-> outcome, video_id |-> VideoIdOf[b.urls[b.idx]],
     looked |-> b.lookup.looked, seen |-> b.lookup.seen, had_entry |-> b.lookup.had_entry,
     evidence |-> b.has_successful_download, ended |-> b.ended, return_code |-> b.return_code]

\* (mutation of ItemSkipped: the skip is not counted)
ItemSkippedNotCounted(b) ==
    NextItem([b EXCEPT !.items = Append(@, ItemRecord(b, "skipped"))])

\* lines 636-638: the item is skipped
ItemSkipped(b) ==
    NextItem([b EXCEPT !.stats.skipped = @ + 1, !.items = Append(@, ItemRecord(b, "skipped"))])

\* (mutation of ItemDone: a success is counted but never entered in the
\* download history)
ItemDoneWithoutAdd(b, success) ==
    IF success
    THEN AfterItem([b EXCEPT !.stats.success = @ + 1,
                             !.items = Append(@, ItemRecord(b, "success"))])
    ELSE AfterItem([b EXCEPT !.stats.failed = @ + 1,
                             !.items = Append(@, ItemRecord(b, "failed"))])

\* (mutation of ItemDone: a failure is counted even when the item succeeded)
ItemDoneCountsBoth(b, success) ==
    IF success
    THEN LET b1 == [b EXCEPT !.stats.success = @ + 1, !.stats.failed = @ + 1,
                             !.items = Append(@, ItemRecord(b, "success"))]
         IN  IF UsesHistory(b) THEN [b1 EXCEPT !.pc = "add"] ELSE AfterItem(b1)
    ELSE AfterItem([b EXCEPT !.stats.failed = @ + 1,
                             !.items = Append(@, ItemRecord(b, "failed"))])

\* lines 643-650: _download_single returned
ItemDone(b, success) ==
    IF success
    THEN LET b1 == [b EXCEPT !.stats.success = @ + 1,
                             !.items = Append(@, ItemRecord(b, "success"))]
         IN  IF UsesHistory(b) THEN [b1 EXCEPT !.pc = "add"] ELSE AfterItem(b1)
    ELSE AfterItem([b EXCEPT !.stats.failed = @ + 1,
                             !.items = Append(@, ItemRecord(b, "failed"))])

\* line 647: the call of add_to_download_history, when it is made
ItemDoneFrame(b, success, frame) ==
    IF success /\ UsesHistory(b)
    THEN CallFrame("add", b.download_path, VideoIdOf[b.urls[b.idx]], b.urls[b.idx], "None")
    ELSE frame

\* (mutation of DownloadSucceeded: only the exit code counts)
DownloadSucceededByExitCode(return_code, has_successful_download) == return_code = 0

\* line 715: return return_code == 0 or has_successful_download
DownloadSucceeded(return_code, has_successful_download) ==
    return_code = 0 \/ has_successful_download

\* lines 695-709: what one line of the downloader's output holds: the
\* progress text to show ("" for none) and whether it is evidence of a
\* finished download
LineFacts(raw) ==
    LET line == Strip(raw) IN
    IF line = "" THEN [info |-> "", evidence |-> FALSE]
    ELSE IF Contains(line, "[download]")
    THEN [info |-> parse_progress(line),
          evidence |-> Contains(line, "has already been downloaded") \/ Contains(line, "100%")]
    ELSE IF Contains(line, "ERROR") \/ Contains(line, "WARNING")
    THEN [info |-> "", evidence |-> FALSE]
    ELSE [info |-> "",
          evidence |-> Contains(line, "[Merger]") \/ Contains(line, "Deleting original file")]

\* LineFacts, computed once for every line the downloader writes
LineTable == [raw \in BatchLines |-> LineFacts(raw)] @@ << >>

\* (mutation of ProgressChanged: every progress string is shown)
ProgressNotEmpty(progress_info, last_progress) == progress_info # ""

\* line 700: if progress_info and progress_info != last_progress
ProgressChanged(progress_info, last_progress) ==
    progress_info # "" /\ progress_info # last_progress

\* lines 695-709: one line of output is read
StreamStep(b, raw) ==
    LET facts == LineTable[raw]
        counted == IF facts.info # "" THEN [b EXCEPT !.parsed = @ + 1] ELSE b
        shown == IF ProgressChanged(facts.info, b.last_progress)
                 THEN [counted EXCEPT !.last_progress = facts.info,
                                      !.progress = Append(@, facts.info)]
                 ELSE counted
    IN  IF facts.evidence THEN [shown EXCEPT !.has_successful_download = TRUE] ELSE shown

\* subprocess.Popen(cmd, cwd=download_path): the child cannot enter a
\* directory that does not exist (FileNotFoundError)
PopenCwdUsable(download_path) ==
    /\ download_path # ""
    /\ ~NormalizeRaises(download_path, cwd_ok)
    /\ IsDir(normalize_path(download_path))

\* line 817: self._is_running = False
StopFlags(b) ==
    [b EXCEPT !.is_running = FALSE, !.stopped_at = IF @ = -1 THEN b.idx ELSE @]

\* line 820: self._is_paused = True
PauseFlags(b) == [b EXCEPT !.is_paused = TRUE]

\* (mutation of ResumeFlags: resume also sets the batch running again)
ResumeRestarts(b) == [b EXCEPT !.is_paused = FALSE, !.is_running = TRUE]

\* line 823: self._is_paused = False
ResumeFlags(b) == [b EXCEPT !.is_paused = FALSE]

\* (mutation of BJStop: the flag is shared by all batches)
BJStopAll(j) ==
    /\ bj[j].pc # "absent"
    /\ bj' = [k \in Jobs |-> IF bj[k].pc # "absent" THEN StopFlags(bj[k]) ELSE bj[k]]
    /\ UNCHANGED bjproc
    /\ UNCHANGED <<djVars, ledgerVars, syncVars>>

\* BatchDownloadWorker.stop (lines 816-817), called from the main thread
BJStop(j) ==
    /\ bj[j].pc # "absent"
    /\ bj' = [bj EXCEPT ![j] = StopFlags(@)]
    /\ UNCHANGED bjproc
    /\ UNCHANGED <<djVars, ledgerVars, syncVars>>

\* BatchDownloadWorker.pause (lines 819-820)
BJPause(j) ==
    /\ bj[j].pc # "absent"
    /\ bj' = [bj EXCEPT ![j] = PauseFlags(@)]
    /\ UNCHANGED bjproc
    /\ UNCHANGED <<djVars, ledgerVars, syncVars>>

\* BatchDownloadWorker.resume (lines 822-823)
BJResume(j) ==
    /\ bj[j].pc # "absent"
    /\ bj' = [bj EXCEPT ![j] = ResumeFlags(@)]
    /\ UNCHANGED bjproc
    /\ UNCHANGED <<djVars, ledgerVars, syncVars>>

\* QThread.start(): run() begins (lines 612-616)
BJStart(j) ==
    /\ bj[j].pc = "ready"
    /\ bj' = [bj EXCEPT ![j] = NextItem(bj[j])]
    /\ UNCHANGED bjproc
    /\ UNCHANGED <<djVars, ledgerVars, syncVars>>

\* lines 616-619: the loop ends, or stops, or waits while paused, or goes on
BJLoopTop(j) ==
    /\ bj[j].pc = "loop_top"
    /\ LET b == bj[j] IN
       bj' = [bj EXCEPT ![j] =
                IF b.idx > Len(b.urls) \/ StopSeenAtLoopTop(b.is_running) THEN Finish(b)
                ELSE IF b.is_paused THEN [b EXCEPT !.pc = "paused", !.waited_at = b.idx]
                ELSE [b EXCEPT !.pc = "check"]]
    /\ UNCHANGED bjproc
    /\ UNCHANGED <<djVars, ledgerVars, syncVars>>

\* (mutation of PauseLoopHolds: the loop is left at once)
PauseLoopNeverHolds(is_paused, is_running) == FALSE

\* line 619: while self._is_paused and self._is_running
PauseLoopHolds(is_paused, is_running) == is_paused /\ is_running

\* lines 619-620: msleep(100) returns and the pause loop is left
BJPauseWake(j) ==
    /\ bj[j].pc = "paused"
    /\ ~PauseLoopHolds(bj[j].is_paused, bj[j].is_running)
    /\ bj' = [bj EXCEPT ![j].pc = "check"]
    /\ UNCHANGED bjproc
    /\ UNCHANGED <<djVars, ledgerVars, syncVars>>

\* lines 621-635: the second stop check, then the item is taken up and
\* is_downloaded is called when there is a history to ask
BJBeginItem(j) ==
    /\ bj[j].pc = "check"
    /\ LET b == bj[j]
           url == b.urls[b.idx]
           fresh == [b EXCEPT !.last_progress = "", !.has_successful_download = FALSE,
                              !.ended = "", !.return_code = 0, !.progress = <<>>,
                              !.parsed = 0,
                              !.lookup = [looked |-> FALSE, seen |-> {}, had_entry |-> FALSE]]
       IN  IF StopSeenAtLoopTop(b.is_running)
           THEN /\ bj' = [bj EXCEPT ![j] = Finish(b)]
                /\ UNCHANGED frames
           ELSE IF UsesHistory(b)
           THEN /\ bj' = [bj EXCEPT ![j] = [fresh EXCEPT !.pc = "dedup"]]
                /\ frames' = [frames EXCEPT ![j] =
                     CallFrame("is_downloaded", b.download_path, VideoIdOf[url], url, "None")]
           ELSE /\ bj' = [bj EXCEPT ![j] = [fresh EXCEPT !.pc = "popen"]]
                /\ UNCHANGED frames
    /\ UNCHANGED bjproc
    /\ UNCHANGED <<download_history, history_file, history_lock, files, cwd_ok>>
    /\ UNCHANGED <<djVars, syncVars>>

\* lines 635-638: is_downloaded returned
BJAfterLookup(j) ==
    /\ bj[j].pc = "dedup"
    /\ frames[j].pc = "ret"
    /\ LET f == frames[j]
           b == [bj[j] EXCEPT !.lookup = [looked |-> TRUE, seen |-> f.seen, had_entry |-> f.had_entry]]
       IN  bj' = [bj EXCEPT ![j] = IF f.result THEN ItemSkipped(b) ELSE [b EXCEPT !.pc = "popen"]]
    /\ frames' = [frames EXCEPT ![j] = IdleFrame]
    /\ UNCHANGED bjproc
    /\ UNCHANGED <<download_history, history_file, history_lock, files, cwd_ok>>
    /\ UNCHANGED <<djVars, syncVars>>

\* lines 665-667: an OSError raised by is_downloaded or
\* add_to_download_history leaves the loop; it is logged and run() returns
BJCallRaised(j) ==
    /\ bj[j].pc \in {"dedup", "add"}
    /\ frames[j].pc = "raised"
    /\ bj' = [bj EXCEPT ![j].error_logged = TRUE, ![j].pc = "done"]
    /\ frames' = [frames EXCEPT ![j] = IdleFrame]
    /\ UNCHANGED bjproc
    /\ UNCHANGED <<download_history, history_file, history_lock, files, cwd_ok>>
    /\ UNCHANGED <<djVars, syncVars>>

\* lines 672-686: subprocess.Popen starts the downloader
BJPopen(j) ==
    /\ bj[j].pc = "popen"
    /\ PopenCwdUsable(bj[j].download_path)
    /\ bj' = [bj EXCEPT ![j].pc = "stream", ![j].launched = Append(@, bj[j].idx)]
    /\ bjproc' = [bjproc EXCEPT ![j] = Spawned]
    /\ UNCHANGED <<djVars, ledgerVars, syncVars>>

\* (mutation of SpawnFailed: the OSError is not caught in _download_single
\* and ends run() in its own except clause)
SpawnFailedEndsRun(b) ==
    [b EXCEPT !.launched = Append(@, b.idx), !.error_logged = TRUE, !.pc = "done"]

\* lines 722-724 and 648-650: the OSError is caught, _download_single
\* returns False and the item has failed
SpawnFailed(b) ==
    ItemDone([b EXCEPT !.launched = Append(@, b.idx), !.ended = "oserror"], FALSE)

\* lines 677, 722-724: subprocess.Popen raises OSError (no downloader
\* installed, or no such directory), the item has failed
BJPopenFails(j) ==
    /\ bj[j].pc = "popen"
    /\ bj' = [bj EXCEPT ![j] = SpawnFailed(bj[j])]
    /\ UNCHANGED bjproc
    /\ UNCHANGED <<djVars, ledgerVars, syncVars>>

\* lines 691-709: readline returns a line
BJReadLine(j) ==
    /\ bj[j].pc = "stream"
    /\ bjproc[j].pending # <<>>
    /\ IF ~bj[j].is_running
       THEN /\ bjproc' = [bjproc EXCEPT ![j] = Terminate([@ EXCEPT !.pending = Tail(@)])]
            /\ bj' = [bj EXCEPT ![j].pc = "wait"]
       ELSE /\ bjproc' = [bjproc EXCEPT ![j].pending = Tail(@)]
            /\ bj' = [bj EXCEPT ![j] = StreamStep(@, Head(bjproc[j].pending))]
    /\ UNCHANGED <<djVars, ledgerVars, syncVars>>

\* lines 691, 711-715, 643-650: readline returns "" (the downloader has
\* exited), process.wait() returns its exit code at once
BJReadEOF(j) ==
    /\ bj[j].pc = "stream"
    /\ bjproc[j].pending = <<>>
    /\ ~bjproc[j].alive
    /\ LET b == [bj[j] EXCEPT !.ended = "exit", !.return_code = bjproc[j].returncode]
           success == DownloadSucceeded(bjproc[j].returncode, b.has_successful_download)
       IN  /\ bj' = [bj EXCEPT ![j] = ItemDone(b, success)]
           /\ frames' = [frames EXCEPT ![j] = ItemDoneFrame(b, success, @)]
    /\ UNCHANGED bjproc
    /\ UNCHANGED <<download_history, history_file, history_lock, files, cwd_ok>>
    /\ UNCHANGED <<djVars, syncVars>>

\* lines 711-715, 643-650, after the loop was left on stop: process.wait()
\* returns once the downloader has exited
BJWaitReturns(j) ==
    /\ bj[j].pc = "wait"
    /\ ~bjproc[j].alive
    /\ LET b == [bj[j] EXCEPT !.ended = "exit", !.return_code = bjproc[j].returncode]
           success == DownloadSucceeded(bjproc[j].returncode, b.has_successful_download)
       IN  /\ bj' = [bj EXCEPT ![j] = ItemDone(b, success)]
           /\ frames' = [frames EXCEPT ![j] = ItemDoneFrame(b, success, @)]
    /\ UNCHANGED bjproc
    /\ UNCHANGED <<download_history, history_file, history_lock, files, cwd_ok>>
    /\ UNCHANGED <<djVars, syncVars>>

\* lines 712, 717-720: process.wait(timeout) raises TimeoutExpired, the
\* downloader is killed and the item has failed
BJWaitTimeout(j) ==
    /\ bj[j].pc = "wait"
    /\ bjproc[j].alive
    /\ bj[j].download_timeout > 0
    /\ bjproc' = [bjproc EXCEPT ![j] = Kill(@)]
    /\ bj' = [bj EXCEPT ![j] = ItemDone([bj[j] EXCEPT !.ended = "timeout"], FALSE)]
    /\ UNCHANGED <<djVars, ledgerVars, syncVars>>

\* line 647: add_to_download_history returned
BJAfterAdd(j) ==
    /\ bj[j].pc = "add"
    /\ frames[j].pc = "ret"
    /\ bj' = [bj EXCEPT ![j] = AfterItem(bj[j])]
    /\ frames' = [frames EXCEPT ![j] = IdleFrame]
    /\ UNCHANGED bjproc
    /\ UNCHANGED <<download_history, history_file, history_lock, files, cwd_ok>>
    /\ UNCHANGED <<djVars, syncVars>>

\* line 653: msleep(2000) returns
BJDelayWake(j) ==
    /\ bj[j].pc = "delay"
    /\ bj' = [bj EXCEPT ![j] = NextItem(bj[j])]
    /\ UNCHANGED bjproc
    /\ UNCHANGED <<djVars, ledgerVars, syncVars>>

\* the downloader writes one line to its output, while the pipe is open
BJProcWrite(j) ==
    /\ bj[j].pc = "stream"
    /\ bjproc[j].alive
    /\ bjproc[j].written < MaxLines
    /\ \E line \in BatchLines : bjproc' = [bjproc EXCEPT ![j] = ProcWrite(@, line)]
    /\ UNCHANGED bj
    /\ UNCHANGED <<djVars, ledgerVars, syncVars>>

\* the downloader exits
BJProcExit(j) ==
    /\ bjproc[j].alive
    /\ \E rc \in ExitCodes(bjproc[j]) : bjproc' = [bjproc EXCEPT ![j] = ProcExit(@, rc)]
    /\ UNCHANGED bj
    /\ UNCHANGED <<djVars, ledgerVars, syncVars>>

\* the downloader of the item in flight writes the finished video file into
\* the download directory (the -o template of line 767 ends in [%(id)s].%(ext)s)
BJProcCreatesFile(j) ==
    /\ bj[j].pc = "stream"
    /\ bjproc[j].alive
    /\ LET dir == normalize_path(bj[j].download_path)
           vid == VideoIdOf[bj[j].urls[bj[j].idx]]
       IN  /\ dir \in DOMAIN files
           /\ \E name \in FinishedFilesFor[vid] \ files[dir] :
                 files' = [files EXCEPT ![dir] = @ \cup {name}]
    /\ UNCHANGED <<frames, download_history, history_file, history_lock, cwd_ok>>
    /\ UNCHANGED <<djVars, batchVars, syncVars>>

\* What one batch is given: settings["download_path"],
\* settings["download_timeout"], and whether a main window stands behind it
BatchConfigs ==
    {[download_path |-> "/dl", download_timeout |-> DEFAULT_TIMEOUT, has_main_window |-> TRUE],
     [download_path |-> "/dl", download_timeout |-> 0, has_main_window |-> TRUE],
     [download_path |-> "dl", download_timeout |-> DEFAULT_TIMEOUT, has_main_window |-> TRUE],
     [download_path |-> "", download_timeout |-> DEFAULT_TIMEOUT, has_main_window |-> TRUE],
     [download_path |-> "/dl", download_timeout |-> DEFAULT_TIMEOUT, has_main_window |-> FALSE]}

\* the first n URLs of the pool, taken round
BatchUrls(n) == [i \in 1..n |-> UrlPool[((i - 1) % Len(UrlPool)) + 1]]

\* The download directories when a batch starts: a finished file of the
\* first URL's video with the partial file of an earlier attempt next to it
BatchListings ==
    {[d \in {"/dl", "/home/dl"} |->
        IF d = "/dl" THEN {"U - T [abcdefghij].mp4", "U - T [abcdefghij].mp4.part"} ELSE {}]}

\* The histories a batch starts with
BatchHistories ==
    {h \in InitialHistories :
        DOMAIN h \in {{}, {<<"/dl", "abcdefghij">>, <<"/dl", "bili_BV1xx411c7mD">>}}}

BatchNext ==
    \/ \E j \in Jobs : BJStop(j)
    \/ \E j \in Jobs : BJPause(j)
    \/ \E j \in Jobs : BJResume(j)
    \/ \E j \in Jobs : BJStart(j)
    \/ \E j \in Jobs : BJLoopTop(j)
    \/ \E j \in Jobs : BJPauseWake(j)
    \/ \E j \in Jobs : BJBeginItem(j)
    \/ \E j \in Jobs : BJAfterLookup(j)
    \/ \E j \in Jobs : BJCallRaised(j)
    \/ \E j \in Jobs : BJPopen(j)
    \/ \E j \in Jobs : BJPopenFails(j)
    \/ \E j \in Jobs : BJReadLine(j)
    \/ \E j \in Jobs : BJReadEOF(j)
    \/ \E j \in Jobs : BJWaitReturns(j)
    \/ \E j \in Jobs : BJWaitTimeout(j)
    \/ \E j \in Jobs : BJAfterAdd(j)
    \/ \E j \in Jobs : BJDelayWake(j)
    \/ \E j \in Jobs : BJProcWrite(j)
    \/ \E j \in Jobs : BJProcExit(j)
    \/ \E t \in Threads : IsDownloadedBegin(t)
    \/ \E t \in Threads : AddBegin(t)
    \/ \E t \in Threads : AcquireHistoryLock(t)
    \/ \E t \in Threads : IsDownloadedLocked(t)
    \/ \E t \in Threads : AddLocked(t)
    \/ EnvDeleteFile
    \/ EnvRemoveCwd

\* ----------------------------------------------------------------------
\* Properties of BatchDownloadWorker
\* ----------------------------------------------------------------------

\* the items a stats dictionary counts
StatsTotal(stats) == stats.success + stats.failed + stats.skipped

\* the positions of the items the batch skipped
SkippedItems(b) == {k \in DOMAIN b.items : b.items[k].outcome = "skipped"}

\* is_downloaded was asked about the item and the listing it looked at held
\* a finished video file matching the item's id
ItemSawFile(r) == r.looked /\ r.seen \cap FinishedFilesFor[r.video_id] # {}

\* C2: once stop() was called while item i was the current one, the
\* downloader is never invoked for item i+1 or a later one, and the stats,
\* as kept and as emitted, count at most i items.
C2_NothingLaunchedAfterStop ==
    \A j \in Jobs :
        bj[j].stopped_at # -1 =>
            /\ \A k \in DOMAIN bj[j].launched : bj[j].launched[k] <= bj[j].stopped_at
            /\ StatsTotal(bj[j].stats) <= bj[j].stopped_at
            /\ \A k \in DOMAIN bj[j].task_finished :
                 StatsTotal(bj[j].task_finished[k]) <= bj[j].stopped_at

\* a batch of two URLs was stopped during its first item: the downloader
\* ran for item 1 only and the stats emitted count one item
C2_Witness ==
    /\ bj["job1"].pc = "done"
    /\ Len(bj["job1"].urls) = 2
    /\ bj["job1"].stopped_at = 1
    /\ bj["job1"].launched = <<1>>
    /\ Len(bj["job1"].task_finished) = 1
    /\ StatsTotal(bj["job1"].task_finished[1]) = 1

\* C3 (as claimed): an item for which the history held an entry for
\* (download_path, id), or for which a file on disk matches the id, is
\* counted as skipped and the downloader is not invoked for it.
C3_SkippedOnEntryOrFile ==
    \A j \in Jobs : \A k \in DOMAIN bj[j].items :
        LET r == bj[j].items[k] IN
        (r.had_entry \/ ItemSawFile(r)) =>
            /\ r.outcome = "skipped"
            /\ \A m \in DOMAIN bj[j].launched : bj[j].launched[m] # r.idx

\* C3 (amended): an item is skipped exactly when the batch has a main window
\* and a non-empty download path and is_downloaded found a finished video
\* file matching the id; a skipped item adds one to skipped and the
\* downloader is not invoked for it; a history entry without such a file
\* does not skip the item.
C3_SkippedIffMatchingFile ==
    \A j \in Jobs :
        /\ bj[j].stats.skipped = Cardinality(SkippedItems(bj[j]))
        /\ \A k \in DOMAIN bj[j].items :
             LET r == bj[j].items[k] IN
             /\ r.outcome = "skipped" <=> ItemSawFile(r)
             /\ r.looked <=> (bj[j].has_main_window /\ bj[j].download_path # "")
             /\ r.outcome = "skipped" =>
                  \A m \in DOMAIN bj[j].launched : bj[j].launched[m] # r.idx

\* item 1 was skipped for its file; item 2 had a history entry and no file,
\* and the downloader was invoked for it
C3_Witness ==
    /\ Len(bj["job1"].items) = 2
    /\ bj["job1"].items[1].outcome = "skipped"
    /\ ItemSawFile(bj["job1"].items[1])
    /\ bj["job1"].items[2].had_entry
    /\ ~ItemSawFile(bj["job1"].items[2])
    /\ bj["job1"].items[2].outcome = "success"
    /\ bj["job1"].launched = <<2>>
    /\ bj["job1"].stats.skipped = 1

InDownloadSingle(b) == b.pc \in {"stream", "wait"}

\* C11: the items of one batch are taken strictly in input order and one at
\* a time: the downloader is invoked for item k only when every earlier
\* item has been settled (skipped, succeeded or failed), the invocations
\* are in increasing order of item, and a downloader of the batch is alive
\* only while its own item is being processed, so never two at a time.
C11_OneItemAtATimeInOrder ==
    \A j \in Jobs :
        /\ \A k \in DOMAIN bj[j].items : bj[j].items[k].idx = k
        /\ \A k \in DOMAIN bj[j].launched :
             /\ k > 1 => bj[j].launched[k - 1] < bj[j].launched[k]
             /\ bj[j].launched[k] <= Len(bj[j].items) + 1
        /\ InDownloadSingle(bj[j]) =>
             /\ bj[j].launched # <<>>
             /\ bj[j].launched[Len(bj[j].launched)] = bj[j].idx
             /\ Len(bj[j].items) = bj[j].idx - 1
        /\ bjproc[j].alive => InDownloadSingle(bj[j])

\* the downloader of item 2 is running after item 1 was downloaded and
\* its downloader has exited
C11_Witness ==
    /\ bj["job1"].pc = "stream"
    /\ bj["job1"].launched = <<1, 2>>
    /\ Len(bj["job1"].items) = 1
    /\ bj["job1"].items[1].outcome = "failed"
    /\ bjproc["job1"].alive

\* the history key an item of the batch is entered under
ItemKey(b, r) == HistoryKey(normalize_path(b.download_path), r.video_id)

\* the batch's call of add_to_download_history for its latest item is still
\* running, or has raised and ended the batch
AddUnfinished(b, k) ==
    /\ k = Len(b.items)
    /\ b.idx = b.items[k].idx
    /\ b.pc = "add" \/ (b.pc = "done" /\ b.error_logged)

\* the step settles one more item of job j
SettlesItem(j) == Len(bj'[j].items) = Len(bj[j].items) + 1

\* the counters move only when an item is settled, and then the item's own
\* counter moves by one; a failed item neither changes the history nor
\* makes the batch call add_to_download_history
CountsOneItem(j) ==
    LET r == bj'[j].items[Len(bj'[j].items)] IN
    /\ bj'[j].stats # bj[j].stats => SettlesItem(j)
    /\ SettlesItem(j) =>
         /\ bj'[j].items = Append(bj[j].items, r)
         /\ r.outcome = "success" => bj'[j].stats = [bj[j].stats EXCEPT !.success = @ + 1]
         /\ r.outcome = "failed" =>
              /\ bj'[j].stats = [bj[j].stats EXCEPT !.failed = @ + 1]
              /\ download_history' = download_history
              /\ history_file' = history_file
              /\ bj'[j].pc # "add"
              /\ frames'[j].fn # "add"
         /\ r.outcome = "skipped" => bj'[j].stats = [bj[j].stats EXCEPT !.skipped = @ + 1]

DownloadedItems(b) == {k \in DOMAIN b.items : b.items[k].outcome # "skipped"}

\* C13 (as claimed): an item is a success exactly when the downloader
\* exited with code 0 or its output held evidence of a finished file.
C13_SuccessIffExitZeroOrEvidence ==
    \A j \in Jobs : \A k \in DownloadedItems(bj[j]) :
        LET r == bj[j].items[k] IN
        r.outcome = "success" <=>
            ((r.ended = "exit" /\ r.return_code = 0) \/ r.evidence)

\* C13 (amended): an item whose downloader was waited for until it exited
\* is a success exactly when the exit code is 0 or the output held evidence
\* of a finished file; an item whose downloader did not exit within the
\* timeout, or could not be started, is a failure whatever the output held.
C13_SuccessIffExitedWithZeroOrEvidence ==
    \A j \in Jobs : \A k \in DownloadedItems(bj[j]) :
        LET r == bj[j].items[k] IN
        /\ r.ended \in {"exit", "timeout", "oserror"}
        /\ r.outcome = "success" <=>
             (r.ended = "exit" /\ (r.return_code = 0 \/ r.evidence))
        /\ r.outcome = "failed" <=>
             (r.ended # "exit" \/ (r.return_code # 0 /\ ~r.evidence))

\* the downloader exited with code 1 after a line with 100% was read: the
\* item is a success
C13_Witness ==
    /\ Len(bj["job1"].items) >= 1
    /\ bj["job1"].items[1].ended = "exit"
    /\ bj["job1"].items[1].return_code = 1
    /\ bj["job1"].items[1].evidence
    /\ bj["job1"].items[1].outcome = "success"

\* C18 (as claimed): once stop() was called while the downloader of an item
\* is running, the downloader is eventually not alive any more, also when
\* it writes nothing further.
C18_StopEndsTheDownloader ==
    \A j \in Jobs :
        (bj[j].pc = "stream" /\ ~bj[j].is_running /\ bjproc[j].alive)
            ~> ~bjproc[j].alive

\* C25 (as claimed): with a positive download_timeout an item whose
\* downloader is running is eventually settled, the downloader not being
\* alive any more, also when the downloader neither exits nor closes its
\* output (unless the batch is stopped meanwhile).
C25_TimeoutBoundsTheWholeItem ==
    \A j \in Jobs :
        (bj[j].pc = "stream" /\ bj[j].download_timeout > 0 /\ bjproc[j].alive)
            ~> \/ ~bjproc[j].alive /\ Len(bj[j].items) >= Len(bj[j].launched)
               \/ ~bj[j].is_running

\* the step in which subprocess.Popen raises OSError in the DownloadWorker
DJSpawnFails == dj.pc = "popen" /\ dj'.pc \notin {"popen", "stream"}

\* the step in which subprocess.Popen raises OSError in batch j
BJSpawnFails(j) == bj[j].pc = "popen" /\ bj'[j].pc \notin {"popen", "stream"}

\* C26: an OSError of subprocess.Popen is handled like a failed run of the
\* downloader. In the DownloadWorker it is one attempt, it leaves the cause
\* as the message, reports no success, and is followed by the next attempt
\* unless the job was cancelled (the last attempt ends with the exhausted
\* failure). In a batch the item is counted as failed and nothing else, the
\* loop goes on with the next item, and a batch that was not stopped ends
\* with every item settled.
C26_SpawnFailureIsAFailedAttempt ==
    /\ [](/\ (dj.pc = "done" /\ dj.message = "error" /\ ~dj.is_cancelled) =>
                /\ dj.launches = dj.max_retries
                /\ dj.finished = <<ExhaustedEvent>>
          /\ \A j \in Jobs :
                (bj[j].pc = "done" /\ bj[j].stopped_at = -1) =>
                    /\ Len(bj[j].items) = Len(bj[j].urls)
                    /\ bj[j].task_finished = <<bj[j].stats>>
                    /\ ~bj[j].error_logged)
    /\ [][/\ DJSpawnFails =>
               /\ dj'.launches = dj.launches + 1
               /\ dj'.message = "error"
               /\ \A i \in DOMAIN dj'.finished : ~dj'.finished[i].success
               /\ IF dj.is_cancelled
                  THEN dj'.pc = "done"
                  ELSE /\ dj'.pc = "loop"
                       /\ dj'.attempt = dj.attempt + 1
                       /\ dj'.finished = dj.finished
          /\ \A j \in Jobs :
               BJSpawnFails(j) =>
                 /\ bj'[j].stats = [bj[j].stats EXCEPT !.failed = @ + 1]
                 /\ Len(bj'[j].items) = Len(bj[j].items) + 1
                 /\ bj'[j].items[Len(bj'[j].items)].outcome = "failed"
                 /\ bj'[j].items[Len(bj'[j].items)].idx = bj[j].idx
                 /\ ~bj'[j].error_logged
                 /\ bj'[j].task_finished = <<>>
                 /\ \/ bj'[j].pc = "delay" /\ bj'[j].idx = bj[j].idx
                    \/ bj'[j].pc = "loop_top" /\ bj'[j].idx = bj[j].idx + 1]_vars

\* the downloader could not be started for the first attempt of a job and
\* for the first item of a batch; the job made its second attempt and the
\* batch is at its second item
C26_Witness ==
    /\ dj.message = "error"
    /\ dj.attempt = 1
    /\ dj.launches = 2
    /\ dj.pc = "stream"
    /\ bj["job1"].idx = 2
    /\ bj["job1"].pc = "stream"
    /\ bj["job1"].stats = [success |-> 0, failed |-> 1, skipped |-> 0]
    /\ bj["job1"].items[1].ended = "oserror"

\* the control flags of batch j change in the step
FlagsChange(j) ==
    \/ bj'[j].is_running # bj[j].is_running
    \/ bj'[j].is_paused # bj[j].is_paused

\* C28: a step in which stop, pause or resume changes the flags of one
\* batch leaves every other batch (flags, statistics, position) and every
\* other job's downloader process as they were, and so does a step in which
\* a DownloadWorker is cancelled; the step changes no flag and no process of
\* the DownloadWorker either.
C28_ControlOfOneJobLeavesOthersAlone ==
    [][/\ \A j \in Jobs :
            FlagsChange(j) =>
               /\ \A k \in Jobs \ {j} : bj'[k] = bj[k] /\ bjproc'[k] = bjproc[k]
               /\ bjproc'[j] = bjproc[j]
               /\ dj' = dj
               /\ djproc' = djproc
       /\ dj'.is_cancelled # dj.is_cancelled => bj' = bj /\ bjproc' = bjproc]_vars

\* job1 was stopped while its downloader ran and the DownloadWorker was
\* cancelled; job2 is still running its own downloader, paused by its own
\* pause() only
C28_Witness ==
    /\ ~bj["job1"].is_running
    /\ bj["job1"].pc = "stream"
    /\ bjproc["job1"].alive
    /\ dj.is_cancelled
    /\ bj["job2"].is_running
    /\ bj["job2"].is_paused
    /\ bj["job2"].pc = "stream"
    /\ bjproc["job2"].alive
    /\ ~bjproc["job2"].sigterm

\* C29: pause, resume and stop are idempotent on the flags of a batch,
\* resume after pause leaves is_paused false, pause and resume leave
\* is_running as it is (so never true again after stop), and stop leaves
\* is_paused as it is.
C29_FlagOperationsIdempotent ==
    \A j \in Jobs :
        LET b == bj[j] IN
        /\ PauseFlags(PauseFlags(b)) = PauseFlags(b)
        /\ ResumeFlags(ResumeFlags(b)) = ResumeFlags(b)
        /\ StopFlags(StopFlags(b)) = StopFlags(b)
        /\ PauseFlags(b).is_paused
        /\ ~ResumeFlags(PauseFlags(b)).is_paused
        /\ ~StopFlags(b).is_running
        /\ PauseFlags(b).is_running = b.is_running
        /\ ResumeFlags(b).is_running = b.is_running
        /\ ~ResumeFlags(PauseFlags(StopFlags(b))).is_running
        /\ StopFlags(b).is_paused = b.is_paused

\* a batch that was paused and then stopped while its downloader ran
C29_Witness ==
    /\ bj["job1"].is_paused
    /\ ~bj["job1"].is_running
    /\ bj["job1"].stopped_at = 1
    /\ bj["job1"].pc = "stream"
    /\ bj["job2"].pc = "paused"
    /\ ~bj["job2"].is_running

\* C19 (as claimed): from a state in which the batch is paused and not
\* stopped, no step invokes the downloader or changes a counter.
C19_NothingHappensWhilePausedFlag ==
    [][\A j \in Jobs :
         (bj[j].is_paused /\ bj[j].is_running) =>
            /\ bj'[j].launched = bj[j].launched
            /\ bj'[j].stats = bj[j].stats]_vars

\* C19 (amended): a pause is obeyed at the top of the loop, before an item
\* is taken up: while the batch waits there (paused, not stopped) it stays
\* there, invokes no downloader and changes no counter, and it leaves the
\* wait with the same item it entered with; an item already taken up when
\* pause() was called is finished and counted. The items are settled in
\* input order, each once, so none is skipped or repeated.
C19_PausedAtLoopTopConsumesNothing ==
    [][\A j \in Jobs :
         /\ bj[j].pc = "paused" =>
              /\ bj'[j].launched = bj[j].launched
              /\ bj'[j].stats = bj[j].stats
              /\ bj'[j].items = bj[j].items
              /\ bj'[j].idx = bj[j].idx
              /\ bj'[j].pc \in {"paused", "check"}
              /\ (bj[j].is_paused /\ bj[j].is_running) => bj'[j].pc = "paused"
         /\ \A k \in DOMAIN bj'[j].items : bj'[j].items[k].idx = k
         /\ bj'[j].idx \in {bj[j].idx, bj[j].idx + 1}]_vars

\* a batch of two was paused after its first item, waited at the top of the
\* loop, was resumed and has gone on with item 2
C19_Witness ==
    /\ bj["job1"].pc = "stream"
    /\ bj["job1"].idx = 2
    /\ bj["job1"].launched = <<1, 2>>
    /\ Len(bj["job1"].items) = 1
    /\ ~bj["job1"].is_paused
    /\ bj["job1"].is_running
    /\ bj["job1"].waited_at = 2

\* ======================================================================
\* Download statistics (DownloadStats.to_dict / from_dict)
\* ======================================================================

\* Largest value of a field of a DownloadStats object
MaxStat == 1

\* the fields of the dataclass (lines 149-154)
StatsFields ==
    {"total_downloads", "successful_downloads", "failed_downloads",
     "skipped_downloads", "total_bytes_downloaded", "total_time_seconds"}

\* the DownloadStats objects with non-negative fields
StatsObjects == [StatsFields -> 0..MaxStat]

\* dict.get(key, default)
DictGet(data, key, default) == IF key \in DOMAIN data THEN data[key] ELSE default

\* DownloadStats.to_dict (lines 156-164)
to_dict(self) ==
    [total_downloads        |-> self.total_downloads,
     successful_downloads   |-> self.successful_downloads,
     failed_downloads       |-> self.failed_downloads,
     skipped_downloads      |-> self.skipped_downloads,
     total_bytes_downloaded |-> self.total_bytes_downloaded,
     total_time_seconds     |-> self.total_time_seconds]

\* (mutation of from_dict: two counters read each other's key)
from_dict_crossed(data) ==
    [total_downloads        |-> DictGet(data, "total_downloads", 0),
     successful_downloads   |-> DictGet(data, "failed_downloads", 0),
     failed_downloads       |-> DictGet(data, "successful_downloads", 0),
     skipped_downloads      |-> DictGet(data, "skipped_downloads", 0),
     total_bytes_downloaded |-> DictGet(data, "total_bytes_downloaded", 0),
     total_time_seconds     |-> DictGet(data, "total_time_seconds", 0)]

\* DownloadStats.from_dict (lines 166-175)
from_dict(data) ==
    [total_downloads        |-> DictGet(data, "total_downloads", 0),
     successful_downloads   |-> DictGet(data, "successful_downloads", 0),
     failed_downloads       |-> DictGet(data, "failed_downloads", 0),
     skipped_downloads      |-> DictGet(data, "skipped_downloads", 0),
     total_bytes_downloaded |-> DictGet(data, "total_bytes_downloaded", 0),
     total_time_seconds     |-> DictGet(data, "total_time_seconds", 0)]

\* no DownloadStats object is looked at
NoStatsCase == [pc |-> "none", s |-> << >>, data |-> << >>, restored |-> << >>]

\* s.to_dict() is called
StatsToDict ==
    /\ dstats.pc = "object"
    /\ dstats' = [dstats EXCEPT !.data = to_dict(dstats.s), !.pc = "dict"]
    /\ UNCHANGED <<playlist_states, playlist_file, sync, built>>
    /\ UNCHANGED <<djVars, ledgerVars, batchVars>>

\* the caller hands on a dict that lacks some of the keys (the dict of an
\* older version, or one edited by hand)
StatsDropKeys ==
    /\ dstats.pc = "dict"
    /\ \E kept \in SUBSET StatsFields :
         /\ kept # StatsFields
         /\ dstats' = [dstats EXCEPT !.data = [k \in kept |-> dstats.data[k]],
                                     !.pc = "partial"]
    /\ UNCHANGED <<playlist_states, playlist_file, sync, built>>
    /\ UNCHANGED <<djVars, ledgerVars, batchVars>>

\* DownloadStats.from_dict(data) is called
StatsFromDict ==
    /\ dstats.pc \in {"dict", "partial"}
    /\ dstats' = [dstats EXCEPT !.restored = from_dict(dstats.data),
                                !.pc = IF dstats.pc = "dict" THEN "round_trip"
                                       ELSE "filled"]
    /\ UNCHANGED <<playlist_states, playlist_file, sync, built>>
    /\ UNCHANGED <<djVars, ledgerVars, batchVars>>

\* C30: from_dict(s.to_dict()) equals s field by field for every
\* DownloadStats s with non-negative fields, and from_dict gives 0 to every
\* field whose key its input lacks (and the input's value to every other).
C30_StatsRoundTrip ==
    /\ dstats.pc = "round_trip" =>
          /\ DOMAIN dstats.restored = StatsFields
          /\ \A f \in StatsFields : dstats.restored[f] = dstats.s[f]
    /\ dstats.pc = "filled" =>
          /\ DOMAIN dstats.restored = StatsFields
          /\ \A f \in StatsFields :
                dstats.restored[f] = IF f \in DOMAIN dstats.data THEN dstats.data[f] ELSE 0

\* an object whose counters differ from each other came back as it was
C30_Witness ==
    /\ dstats.pc = "round_trip"
    /\ dstats.s.successful_downloads = 1
    /\ dstats.s.failed_downloads = 0
    /\ dstats.s.total_downloads = 1
    /\ dstats.restored = dstats.s

\* ======================================================================
\* The downloader command (DownloadWorker._build_command,
\* BatchDownloadWorker._build_ytdlp_command)
\* ======================================================================

\* Python's None where a str is expected
NoneValue == "<None>"

\* truth value of a str-or-None
Truthy(v) == v # NoneValue /\ v # ""

\* str(n) of a non-negative int
RECURSIVE IntToStr(_)
IntToStr(n) ==
    IF n < 10 THEN Ch(DigitChars, n + 1)
    ELSE IntToStr(n \div 10) \o Ch(DigitChars, (n % 10) + 1)

\* os.path.join(a, b) for a relative b
PathJoin(a, b) ==
    IF a = "" \/ EndsWith(a, "/") THEN a \o b ELSE a \o "/" \o b

\* ["--cookies", cookie_file] when the file is configured, whether it
\* exists or not (mutation of CookieOption)
CookieOptionUnchecked(cookie_file, existing) ==
    IF Truthy(cookie_file) THEN <<"--cookies", cookie_file>> ELSE <<>>

\* cookie_file and os.path.exists(cookie_file) (lines 545-546, 757-758)
CookieOption(cookie_file, existing) ==
    IF Truthy(cookie_file) /\ cookie_file \in existing
    THEN <<"--cookies", cookie_file>>
    ELSE <<>>

\* DownloadWorker._build_command (lines 533-566); existing is the set of
\* the paths that exist on disk
build_command(self, platform, existing) ==
    <<"yt-dlp", "-o", PathJoin(self.output_dir, "%(title)s.%(ext)s"),
      "--no-playlist", "--progress", "--newline">>
    \o (IF Truthy(self.rate_limit) THEN <<"--limit-rate", self.rate_limit>> ELSE <<>>)
    \o CookieOption(self.cookie_file, existing)
    \o (IF platform = "bilibili"
        THEN <<"--referer", "https://www.bilibili.com",
               "--add-header", "Origin:https://www.bilibili.com">>
        ELSE <<>>)
    \o (IF Truthy(self.format_id)
        THEN <<"-f", self.format_id>>
        ELSE <<"-f", "bestvideo[ext=mp4]+bestaudio[ext=m4a]/best[ext=mp4]/best">>)
    \o (IF self.include_subs
        THEN <<"--write-subs", "--write-auto-subs", "--sub-langs", self.sub_langs,
               "--embed-subs", "--convert-subs", "srt">>
        ELSE <<>>)
    \o <<self.url>>

\* CONSTANTS.QUALITY_CAPS (lines 95-106)
QUALITY_CAPS ==
    [q \in {"4320p", "2160p", "1440p", "1080p", "720p", "480p", "360p", "240p"} |->
        CASE q = "4320p" -> 4320 [] q = "2160p" -> 2160 [] q = "1440p" -> 1440
          [] q = "1080p" -> 1080 [] q = "720p" -> 720 [] q = "480p" -> 480
          [] q = "360p" -> 360 [] q = "240p" -> 240]

\* the -o option of the batch command (lines 760-772)
OutputOption(settings) ==
    IF Truthy(DictGet(settings, "download_path", NoneValue))
    THEN LET template_text ==
                 IF DictGet(settings, "use_custom_filename", FALSE)
                 THEN Strip(IF Truthy(DictGet(settings, "custom_filename_template", NoneValue))
                            THEN settings["custom_filename_template"] ELSE "")
                 ELSE ""
             base_template ==
                 IF template_text # "" THEN template_text
                 ELSE "%(uploader)s - %(title)s [%(id)s]"
             with_ext ==
                 IF Contains(base_template, "%(ext") THEN base_template
                 ELSE base_template \o ".%(ext)s"
         IN  <<"-o", PathJoin(settings["download_path"], with_ext)>>
    ELSE <<>>

\* the -f option of the batch command (lines 774-783)
QualityOption(settings) ==
    LET quality == Lower(Strip(IF Truthy(DictGet(settings, "quality", NoneValue))
                               THEN settings["quality"] ELSE "best"))
    IN  IF quality = "best" THEN <<"-f", "bestvideo+bestaudio/best">>
        ELSE IF quality = "worst" THEN <<"-f", "worstvideo+worstaudio/worst">>
        ELSE IF quality \in DOMAIN QUALITY_CAPS
        THEN <<"-f", "bestvideo[height<=" \o IntToStr(QUALITY_CAPS[quality])
                     \o "]+bestaudio/best[height<=" \o IntToStr(QUALITY_CAPS[quality]) \o "]">>
        ELSE <<"-f", quality>>

\* the subtitle and file name options of the batch command (lines 785-799)
SubtitleOptions(settings) ==
    (IF DictGet(settings, "download_subtitle", FALSE)
     THEN <<"--write-subs">>
          \o (IF DictGet(settings, "auto_subtitle", FALSE) THEN <<"--write-auto-subs">> ELSE <<>>)
          \o <<"--sub-langs", DictGet(settings, "subtitle_lang", "zh-TW,zh,en")>>
          \o (IF ~DictGet(settings, "subtitle_only", FALSE) THEN <<"--embed-subs">> ELSE <<>>)
     ELSE <<>>)
    \o (IF DictGet(settings, "subtitle_only", FALSE) THEN <<"--skip-download">> ELSE <<>>)
    \o (IF DictGet(settings, "auto_trim_filename", FALSE)
        THEN <<"--trim-filenames", IntToStr(DictGet(settings, "trim_filename_length", 120))>>
        ELSE <<>>)

\* BatchDownloadWorker._build_ytdlp_command (lines 751-814)
build_ytdlp_command(settings, url, platform, existing) ==
    <<"yt-dlp">>
    \o (IF DictGet(settings, "use_cookies", FALSE)
        THEN CookieOption(DictGet(settings, platform \o "_cookie_file", NoneValue), existing)
        ELSE <<>>)
    \o OutputOption(settings)
    \o QualityOption(settings)
    \o SubtitleOptions(settings)
    \o <<"--no-warnings", "--ignore-errors", "--retries", "3", "--fragment-retries", "10">>
    \o (IF platform = "bilibili"
        THEN <<"--referer", "https://www.bilibili.com", "--user-agent",
               "Mozilla/5.0 (Windows NT 10.0; Win64; x64) AppleWebKit/537.36">>
        ELSE <<>>)
    \o <<url>>

\* the cookie files the main window may hold (extract_cookies, lines 1401-1425)
CookiePaths == {"/home/youtube_cookies_1.txt", "/home/bilibili_cookies_1.txt"}

\* the URLs a command is built for: one of each platform detect_platform knows,
\* and one of none
CommandUrls ==
    {UrlPool[1], UrlPool[2], "https://vimeo.com/12345"}

\* the DownloadWorkers about to build a command (__init__, lines 443-468)
CommandWorkers ==
    [url : CommandUrls, output_dir : {"/dl"}, format_id : {NoneValue, "22"},
     include_subs : BOOLEAN, sub_langs : {"en,zh-TW,zh-Hant"},
     cookie_file : {NoneValue, ""} \cup CookiePaths, rate_limit : {NoneValue, "1M"}]

\* the settings build_download_settings hands to a batch (lines 1493-1509)
CommandSettings ==
    [download_path : {"/dl"}, use_cookies : BOOLEAN,
     youtube_cookie_file : {"", "/home/youtube_cookies_1.txt"},
     bilibili_cookie_file : {"", "/home/bilibili_cookies_1.txt"},
     quality : {"best", "720p"}, download_subtitle : BOOLEAN, auto_subtitle : {TRUE},
     subtitle_only : {FALSE}, subtitle_lang : {"zh-TW,zh,en"},
     use_custom_filename : {FALSE}, custom_filename_template : {""},
     auto_trim_filename : BOOLEAN, trim_filename_length : {120}]

\* no command is being built
NoCommand ==
    [pc |-> "none", kind |-> "none", self |-> << >>, settings |-> << >>, url |-> "",
     existing |-> {}, cmd |-> <<>>]

\* DownloadWorker._download_once builds its command (lines 502-503)
BuildCommand ==
    /\ built.pc = "ready"
    /\ built.kind = "single"
    /\ built' = [built EXCEPT
                   !.cmd = build_command(built.self, detect_platform(built.self.url),
                                         built.existing),
                   !.pc = "built"]
    /\ UNCHANGED <<playlist_states, playlist_file, sync, dstats>>
    /\ UNCHANGED <<djVars, ledgerVars, batchVars>>

\* BatchDownloadWorker builds the command of one item (lines 627, 672)
BuildYtdlpCommand ==
    /\ built.pc = "ready"
    /\ built.kind = "batch"
    /\ built' = [built EXCEPT
                   !.cmd = build_ytdlp_command(built.settings, built.url,
                                               detect_platform(built.url), built.existing),
                   !.pc = "built"]
    /\ UNCHANGED <<playlist_states, playlist_file, sync, dstats>>
    /\ UNCHANGED <<djVars, ledgerVars, batchVars>>

\* a cookie file is removed from the disk before the command is built
\* (cleanup_cookies of an earlier session, or the user)
CookieFileRemoved ==
    /\ built.pc = "ready"
    /\ \E gone \in built.existing :
         built' = [built EXCEPT !.existing = @ \ {gone}]
    /\ UNCHANGED <<playlist_states, playlist_file, sync, dstats>>
    /\ UNCHANGED <<djVars, ledgerVars, batchVars>>

\* the positions of an option in a command
OptionAt(cmd, option) == {i \in DOMAIN cmd : cmd[i] = option}

\* a command without the two elements at i and i + 1
WithoutPair(cmd, i) == SubSeq(cmd, 1, i - 1) \o SubSeq(cmd, i + 2, Len(cmd))

\* the cookie file the worker of the case is configured with, NoneValue or
\* "" when there is none (for a batch: cookies enabled and a file set for
\* the platform of the URL)
ConfiguredCookieFile ==
    IF built.kind = "single" THEN built.self.cookie_file
    ELSE IF ~built.settings.use_cookies THEN NoneValue
    ELSE IF detect_platform(built.url) = "youtube" THEN built.settings.youtube_cookie_file
    ELSE IF detect_platform(built.url) = "bilibili" THEN built.settings.bilibili_cookie_file
    ELSE NoneValue

\* the command of the same worker with no cookie file configured
CommandWithoutCookies ==
    IF built.kind = "single"
    THEN build_command([built.self EXCEPT !.cookie_file = NoneValue],
                       detect_platform(built.self.url), built.existing)
    ELSE build_ytdlp_command([built.settings EXCEPT !.use_cookies = FALSE], built.url,
                             detect_platform(built.url), built.existing)

\* C31: both command builders add "--cookies <file>" exactly when a cookie
\* file is configured (for the batch: cookies are enabled and a file is set
\* for the platform) and that file exists on disk; with a configured but
\* missing file the command is the one of a worker without cookie file, and
\* with an existing file it is that command plus the one option.
C31_CookiesIffConfiguredAndPresent ==
    built.pc = "built" =>
        LET file == ConfiguredCookieFile
            wanted == Truthy(file) /\ file \in built.existing
        IN  /\ (OptionAt(built.cmd, "--cookies") # {}) <=> wanted
            /\ ~wanted => built.cmd = CommandWithoutCookies
            /\ wanted =>
                 \E i \in OptionAt(built.cmd, "--cookies") :
                    /\ OptionAt(built.cmd, "--cookies") = {i}
                    /\ i < Len(built.cmd)
                    /\ built.cmd[i + 1] = file
                    /\ WithoutPair(built.cmd, i) = CommandWithoutCookies

\* a batch built the command of a bilibili item while its cookie file is
\* configured but no longer on disk
C31_Witness ==
    /\ built.pc = "built"
    /\ built.kind = "batch"
    /\ built.settings.use_cookies
    /\ detect_platform(built.url) = "bilibili"
    /\ built.settings.bilibili_cookie_file # ""
    /\ built.settings.bilibili_cookie_file \notin built.existing
    /\ OptionAt(built.cmd, "--cookies") = {}
    /\ Len(built.cmd) > 1

\* ======================================================================
\* Playlist synchronisation (MainWindow.detect_playlist_updates)
\* ======================================================================

\* Most entries one playlist listing holds
MaxEntries == 2

\* Most calls of detect_playlist_updates in one run
MaxChecks == 2

PlaylistUrl == "https://www.youtube.com/playlist?list=PLtest123"

\* The entries a listing can hold: two videos, a deleted one, one that
\* carries only a url, one that carries neither id nor url
EntryPool ==
    {[id |-> "abcdefghij", url |-> "", title |-> "T1"],
     [id |-> "klmnopqrstu", url |-> "", title |-> "T2"],
     [id |-> "bili_BV1xx411c7mD", url |-> "", title |-> " [Deleted Video] "],
     [id |-> "", url |-> "https://youtu.be/abcdefghiX", title |-> ""],
     [id |-> "", url |-> "", title |-> "T5"]}

\* What yt-dlp -J --flat-playlist reports
Listings == UNION {[1..n -> EntryPool] : n \in 0..MaxEntries}

\* fetch_playlist_metadata (lines 1557-1567): None, or the parsed listing
FetchResults ==
    {[ok |-> FALSE, id |-> "", entries |-> <<>>]}
    \cup {[ok |-> TRUE, id |-> i, entries |-> l] : i \in {"", "PLtest123"}, l \in Listings}

\* line 1591
UNAVAILABLE_TITLES == {"[deleted video]", "[private video]"}

\* line 1592: (e.get("title") or "").strip().lower() not in unavailable_titles
IsAvailable(e) == Lower(Strip(e.title)) \notin UNAVAILABLE_TITLES

\* line 1595: e.get("id") or e.get("url")
EntryId(e) == IF e.id # "" THEN e.id ELSE e.url

\* the available entries of the pool, and the id of each entry
AvailablePool == {e \in EntryPool : IsAvailable(e)}

EntryIdOf == [e \in EntryPool |-> EntryId(e)] @@ << >>

\* a list comprehension [x for x in seq if x in keep]
RECURSIVE KeepIn(_, _)
KeepIn(seq, keep) ==
    IF seq = <<>> THEN <<>>
    ELSE IF Head(seq) \in keep THEN <<Head(seq)>> \o KeepIn(Tail(seq), keep)
    ELSE KeepIn(Tail(seq), keep)

ToSet(seq) == {seq[i] : i \in DOMAIN seq}

\* lines 1592 and 1595: current_ids
CurrentIds(entries) ==
    LET available == KeepIn(entries, AvailablePool)
        ids == [i \in DOMAIN available |-> EntryIdOf[available[i]]]
    IN  KeepIn(ids, ToSet(ids) \ {""})

\* line 1594: metadata.get("id") or extract_playlist_id(playlist_url)
PlaylistIdOf(metadata_id, playlist_url) ==
    IF metadata_id # "" THEN metadata_id ELSE extract_playlist_id(playlist_url)

\* lines 1597-1598: the ids of the previous snapshot, as a set
PrevIds(states, key) == IF key \in DOMAIN states THEN ToSet(states[key].video_ids) ELSE {}

\* line 1600: added_videos
AddedVideos(current_ids, prev_ids) == KeepIn(current_ids, ToSet(current_ids) \ prev_ids)

\* line 1601: removed_ids
RemovedIds(current_ids, prev_ids) == {vid \in prev_ids : vid \notin ToSet(current_ids)}

\* (mutation of MissingVideos: membership of the previous snapshot is not
\* asked for)
MissingVideosOfAll(current_ids, prev_ids, names) ==
    KeepIn(current_ids, {vid \in ToSet(current_ids) : ~has_local_file_in(names, vid)})

\* (mutation of MissingVideos: the directory is never looked at)
MissingVideosNone(current_ids, prev_ids, names) == <<>>

\* lines 1604-1607: missing_videos, names being the listing of the directory
MissingVideos(current_ids, prev_ids, names) ==
    KeepIn(current_ids,
           {vid \in ToSet(current_ids) : vid \in prev_ids /\ ~has_local_file_in(names, vid)})

\* (mutation of update_playlist_state: the ids of the previous snapshot that
\* the new list lacks are kept in front of it)
update_playlist_state_merging(states, download_path, playlist_id, playlist_url, video_ids, now) ==
    IF download_path = "" \/ playlist_id = "" THEN states
    ELSE [k \in DOMAIN states \cup {<<download_path, playlist_id>>} |->
            IF k = <<download_path, playlist_id>>
            THEN [playlist_url |-> playlist_url,
                  video_ids |-> (IF k \in DOMAIN states
                                 THEN KeepIn(states[k].video_ids,
                                             ToSet(states[k].video_ids) \ ToSet(video_ids))
                                 ELSE <<>>) \o video_ids,
                  last_checked |-> now]
            ELSE states[k]]

\* update_playlist_state (lines 2031-2042) with a normalized path; now is
\* the reading of the clock (datetime.datetime.now())
update_playlist_state(states, download_path, playlist_id, playlist_url, video_ids, now) ==
    IF download_path = "" \/ playlist_id = "" THEN states
    ELSE [k \in DOMAIN states \cup {<<download_path, playlist_id>>} |->
            IF k = <<download_path, playlist_id>>
            THEN [playlist_url |-> playlist_url, video_ids |-> video_ids,
                  last_checked |-> now]
            ELSE states[k]]

\* (mutation of ListingEmpty: an empty listing is compared like any other)
ListingEmptyNever(entries) == FALSE

\* lines 1586-1588: entries = metadata.get("entries") or []; if not entries
ListingEmpty(entries) == entries = <<>>

\* (mutation of NoChange: only added videos count as a change)
NoChangeWhenNothingAdded(c) == c.added_videos = <<>>

\* line 1611: if not has_changes
NoChange(c) == ~c.has_changes

\* (mutation of EvictMissing: no history entry is deleted)
EvictNothing(history, download_path, missing) == history

\* lines 1640-1645: the history entries of the missing videos are deleted
EvictMissing(history, download_path, missing) ==
    [k \in {h \in DOMAIN history : ~(h[1] = download_path /\ h[2] \in ToSet(missing))} |->
        history[k]]

\* (mutation of Declined: no answer stops the call)
DeclinedNever(reply) == FALSE

\* line 1632: if reply != QMessageBox.StandardButton.Yes
Declined(reply) == reply # "Yes"

\* no call of detect_playlist_updates is running (calls: the calls made so
\* far, which is also the reading of the clock; fetched: how
\* fetch_playlist_metadata of the running call ended; entries: the listing
\* it returned; pass: the locals of
\* check_all_playlists while it runs, with what each call returned)
SyncIdleState ==
    [pc |-> "idle", calls |-> 0, playlist_url |-> "", download_path |-> "",
     normalized_path |-> "", playlist_id |-> "",
     prompt_user |-> FALSE, manual_trigger |-> FALSE, offer_auto_download |-> FALSE,
     entries |-> <<>>,
     current_ids |-> <<>>, prev_ids |-> {}, added_videos |-> <<>>, removed_ids |-> {},
     missing_videos |-> <<>>, names |-> {}, has_changes |-> FALSE,
     reply |-> "none", auto_reply |-> "none", status |-> "none", reason |-> "",
     states_before |-> << >>, file_before |-> << >>, workers |-> <<>>, fetched |-> "none",
     pass |-> [pc |-> "none", jobs |-> <<>>, next |-> 0, results |-> <<>>,
               manual_trigger |-> FALSE, updates_found |-> 0, states_before |-> << >>],
     locks |-> [playlist_states |-> "", download_history |-> ""]]

\* (mutation of LocksHeld: the history entries are dropped without the lock)
LocksHeldNever(c) == [playlist_states |-> "none", download_history |-> "none"]

\* The lock the call holds while it changes each map ("" while the call has
\* not changed the map): update_playlist_state (lines 2031-2042) takes no
\* lock, the history entries are dropped under self._history_lock (line 1639)
LocksHeld(c) ==
    [playlist_states |-> "none",
     download_history |-> IF c.missing_videos # <<>> THEN "_history_lock"
                          ELSE c.locks.download_history]

\* lines 1635-1657, up to the second dialog: the snapshot is saved, the
\* history entries of the missing videos are dropped
Proceed(c) ==
    /\ playlist_states' = update_playlist_state(playlist_states, c.normalized_path,
                                                c.playlist_id, c.playlist_url, c.current_ids,
                                                c.calls)
    /\ playlist_file' = playlist_states'
    /\ download_history' =
         IF c.missing_videos # <<>>
         THEN EvictMissing(download_history, c.normalized_path, c.missing_videos)
         ELSE download_history
    /\ history_file' = IF c.missing_videos # <<>> THEN download_history' ELSE history_file
    /\ sync' = IF c.offer_auto_download /\ (c.added_videos \o c.missing_videos) # <<>>
               THEN [c EXCEPT !.pc = "auto_prompt", !.locks = LocksHeld(c)]
               ELSE [c EXCEPT !.pc = "done", !.locks = LocksHeld(c),
                              !.status = IF c.manual_trigger THEN "manual" ELSE "proceed"]

\* the call returns without touching the snapshots and the history
ReturnWith(c, status, reason) ==
    /\ sync' = [c EXCEPT !.pc = "done", !.status = status, !.reason = reason]
    /\ UNCHANGED <<playlist_states, playlist_file, download_history, history_file>>

\* The ways detect_playlist_updates is called: by start_download (line
\* 1472), by manual_check_playlist_updates (line 1677), by
\* check_all_playlists (line 1700), and without confirmation
CallKinds ==
    {[prompt_user |-> TRUE, manual_trigger |-> FALSE, offer_auto_download |-> FALSE],
     [prompt_user |-> TRUE, manual_trigger |-> TRUE, offer_auto_download |-> TRUE],
     [prompt_user |-> TRUE, manual_trigger |-> FALSE, offer_auto_download |-> TRUE],
     [prompt_user |-> FALSE, manual_trigger |-> FALSE, offer_auto_download |-> TRUE]}

\* current_ids, computed once for every listing
CurrentIdsOf == [l \in Listings |-> CurrentIds(l)] @@ << >>

\* lines 1594-1609: the listing is compared with the previous snapshot
Diff(c, fetched) ==
    LET playlist_id == PlaylistIdOf(fetched.id, c.playlist_url)
        current_ids == CurrentIdsOf[fetched.entries]
        names == IF c.normalized_path # "" /\ IsDir(c.normalized_path)
                 THEN ListDir(c.normalized_path) ELSE {}
        prev_ids == PrevIds(playlist_states, <<c.normalized_path, playlist_id>>)
        added_videos == AddedVideos(current_ids, prev_ids)
        removed_ids == RemovedIds(current_ids, prev_ids)
        missing_videos == MissingVideos(current_ids, prev_ids, names)
    IN  [c EXCEPT !.playlist_id = playlist_id, !.entries = fetched.entries,
                  !.current_ids = current_ids, !.prev_ids = prev_ids,
                  !.added_videos = added_videos, !.removed_ids = removed_ids,
                  !.missing_videos = missing_videos, !.names = names,
                  !.has_changes = added_videos # <<>> \/ removed_ids # {}
                                  \/ missing_videos # <<>>]

\* lines 1611-1633: nothing changed, or the first dialog opens, or the call
\* goes on without asking
AfterDiff(c) ==
    IF NoChange(c)
    THEN /\ playlist_states' =
              update_playlist_state(playlist_states, c.normalized_path,
                                    c.playlist_id, c.playlist_url, c.current_ids, c.calls)
         /\ playlist_file' = playlist_states'
         /\ sync' = [c EXCEPT !.pc = "done", !.status = "no-change",
                              !.locks.playlist_states = "none"]
         /\ UNCHANGED <<download_history, history_file>>
    ELSE IF c.prompt_user
    THEN /\ sync' = [c EXCEPT !.pc = "prompt"]
         /\ UNCHANGED <<playlist_states, playlist_file, download_history, history_file>>
    ELSE Proceed(c)

\* lines 1582-1633: the listing is fetched and looked at
Detect(c, fetched) ==
    IF ~fetched.ok
    THEN ReturnWith([c EXCEPT !.fetched = "failed"], "error", "fetch-failed")
    ELSE IF ListingEmpty(fetched.entries)
    THEN ReturnWith([c EXCEPT !.fetched = "empty"], "error", "empty")
    ELSE AfterDiff(Diff([c EXCEPT !.fetched =
                            IF fetched.entries = <<>> THEN "empty" ELSE "ok"],
                        fetched))

\* detect_playlist_updates is called and runs up to its first dialog
\* (lines 1578-1633)
SyncDetect ==
    /\ sync.pc = "idle"
    /\ sync.calls < MaxChecks
    /\ history_lock = "free"
    /\ \E download_path \in {"/dl/", ""}, kind \in CallKinds :
         LET c == [SyncIdleState EXCEPT
                      !.calls = sync.calls + 1, !.workers = sync.workers,
                      !.playlist_url = PlaylistUrl, !.download_path = download_path,
                      !.normalized_path = normalize_path(download_path),
                      !.prompt_user = kind.prompt_user,
                      !.manual_trigger = kind.manual_trigger,
                      !.offer_auto_download = kind.offer_auto_download,
                      !.states_before = playlist_states, !.file_before = playlist_file]
         IN  IF download_path = "" THEN ReturnWith(c, "error", "")
             ELSE \E fetched \in FetchResults : Detect(c, fetched)
    /\ UNCHANGED <<frames, history_lock, files, cwd_ok>>
    /\ UNCHANGED <<djVars, batchVars, dstats, built>>

\* lines 1626-1646: the user answers the first dialog
SyncAnswer ==
    /\ sync.pc = "prompt"
    /\ history_lock = "free"
    /\ \E reply \in {"Yes", "No"} :
         LET c == [sync EXCEPT !.reply = reply] IN
         IF Declined(reply) THEN ReturnWith(c, "cancel", "") ELSE Proceed(c)
    /\ UNCHANGED <<frames, history_lock, files, cwd_ok>>
    /\ UNCHANGED <<djVars, batchVars, dstats, built>>

\* lines 1650-1663 and auto_download_playlist (lines 1665-1669): the user
\* answers the second dialog; on Yes a batch over the playlist URL is
\* created when the download directory exists
SyncAutoAnswer ==
    /\ sync.pc = "auto_prompt"
    /\ \E auto_reply \in {"Yes", "No"} :
         sync' = [sync EXCEPT
                    !.auto_reply = auto_reply,
                    !.workers = IF auto_reply = "Yes" /\ IsDir(sync.normalized_path)
                                THEN Append(@, [urls |-> <<sync.playlist_url>>,
                                                download_path |-> sync.normalized_path])
                                ELSE @,
                    !.status = IF sync.manual_trigger THEN "manual" ELSE "proceed",
                    !.pc = "done"]
    /\ UNCHANGED <<playlist_states, playlist_file>>
    /\ UNCHANGED <<djVars, ledgerVars, batchVars, dstats, built>>

\* the result went back to the caller
SyncReturn ==
    /\ sync.pc = "done"
    /\ sync' = [SyncIdleState EXCEPT !.calls = sync.calls, !.workers = sync.workers]
    /\ UNCHANGED <<playlist_states, playlist_file>>
    /\ UNCHANGED <<djVars, ledgerVars, batchVars, dstats, built>>

\* ----------------------------------------------------------------------
\* MainWindow.check_all_playlists (lines 1690-1711)
\* ----------------------------------------------------------------------

OtherPlaylistUrl == "https://www.youtube.com/playlist?list=PLother456"

\* collect_known_playlists (lines 1679-1688): the snapshots that carry a
\* URL, in the order of the dict
RECURSIVE KnownPlaylists(_, _)
KnownPlaylists(states, order) ==
    IF order = <<>> THEN <<>>
    ELSE LET k == Head(order)
             rest == KnownPlaylists(states, Tail(order))
         IN  IF states[k].playlist_url # ""
             THEN <<[download_path |-> k[1], playlist_id |-> k[2],
                     playlist_url |-> states[k].playlist_url]>> \o rest
             ELSE rest

\* the orders a dict with these keys can have
KeyOrders(keys) ==
    {o \in UNION {[1..n -> keys] : n \in {Cardinality(keys)}} : ToSet(o) = keys}

\* what one call of detect_playlist_updates gave back
PassResult(c) ==
    [playlist_id |-> c.playlist_id, status |-> c.status, fetched |-> c.fetched,
     at |-> c.calls]

\* (mutation of AfterJob: a call that returned error ends the pass)
AfterJobStopOnError(pass, c) ==
    LET counted == [pass EXCEPT
                      !.results = Append(@, PassResult(c)),
                      !.updates_found = IF c.status \in {"proceed", "manual"}
                                        THEN @ + 1 ELSE @,
                      !.next = @ + 1]
    IN  IF c.status = "error" \/ counted.next > Len(pass.jobs)
        THEN [counted EXCEPT !.pc = "done"] ELSE counted

\* lines 1699-1708: the result of one call is counted and the loop goes on
\* with the next known playlist, whatever the result was
AfterJob(pass, c) ==
    LET counted == [pass EXCEPT
                      !.results = Append(@, PassResult(c)),
                      !.updates_found = IF c.status \in {"proceed", "manual"}
                                        THEN @ + 1 ELSE @,
                      !.next = @ + 1]
    IN  IF counted.next > Len(pass.jobs) THEN [counted EXCEPT !.pc = "done"] ELSE counted

\* lines 1690-1698: the known playlists are collected
CheckAllBegin ==
    /\ sync.pc = "idle"
    /\ sync.pass.pc = "none"
    /\ \E order \in KeyOrders(DOMAIN playlist_states), manual_trigger \in BOOLEAN :
         LET jobs == KnownPlaylists(playlist_states, order) IN
         sync' = [sync EXCEPT !.pass =
                    [pc |-> IF jobs = <<>> THEN "done" ELSE "loop",
                     jobs |-> jobs, next |-> 1, results |-> <<>>,
                     manual_trigger |-> manual_trigger, updates_found |-> 0,
                     states_before |-> playlist_states]]
    /\ UNCHANGED <<playlist_states, playlist_file>>
    /\ UNCHANGED <<djVars, ledgerVars, batchVars, dstats, built>>

\* lines 1699-1706: detect_playlist_updates is called for the next known
\* playlist and runs up to its first dialog
CheckAllDetect ==
    /\ sync.pc = "idle"
    /\ sync.pass.pc = "loop"
    /\ history_lock = "free"
    /\ LET job == sync.pass.jobs[sync.pass.next]
           c == [SyncIdleState EXCEPT
                    !.calls = sync.calls + 1, !.workers = sync.workers,
                    !.pass = sync.pass,
                    !.playlist_url = job.playlist_url, !.download_path = job.download_path,
                    !.normalized_path = normalize_path(job.download_path),
                    !.prompt_user = TRUE,
                    !.manual_trigger = sync.pass.manual_trigger,
                    !.offer_auto_download = TRUE,
                    !.states_before = playlist_states, !.file_before = playlist_file]
       IN  \E fetched \in {f \in FetchResults : f.id = ""} : Detect(c, fetched)
    /\ UNCHANGED <<frames, history_lock, files, cwd_ok>>
    /\ UNCHANGED <<djVars, batchVars, dstats, built>>

\* lines 1707-1708: the call has returned
CheckAllReturn ==
    /\ sync.pc = "done"
    /\ sync.pass.pc = "loop"
    /\ sync' = [SyncIdleState EXCEPT !.calls = sync.calls, !.workers = sync.workers,
                                     !.pass = AfterJob(sync.pass, sync)]
    /\ UNCHANGED <<playlist_states, playlist_file>>
    /\ UNCHANGED <<djVars, ledgerVars, batchVars, dstats, built>>

\* Two known playlists of the same download directory
KnownSnapshots ==
    {[k \in {<<"/dl", "PLtest123">>, <<"/dl", "PLother456">>} |->
        IF k[2] = "PLtest123"
        THEN [playlist_url |-> PlaylistUrl, video_ids |-> <<"abcdefghij", "klmnopqrstu">>,
              last_checked |-> 0]
        ELSE [playlist_url |-> OtherPlaylistUrl, video_ids |-> <<"abcdefghij">>,
              last_checked |-> 0]]}

\* The histories a playlist check starts with
SyncHistories ==
    {<< >>,
     [k \in {<<"/dl", "abcdefghij">>, <<"/dl", "klmnopqrstu">>} |->
        [url |-> "https://www.youtube.com/watch?v=" \o k[2], title |-> "None"]]}

\* The snapshots playlist_states.json can hold at start-up
InitialSnapshots ==
    {<< >>,
     [k \in {<<"/dl", "PLtest123">>} |->
        [playlist_url |-> PlaylistUrl, video_ids |-> <<"abcdefghij", "klmnopqrstu">>,
         last_checked |-> 0]]}

\* ----------------------------------------------------------------------
\* Properties of detect_playlist_updates
\* ----------------------------------------------------------------------

\* the call has compared the listing with the previous snapshot
DiffComputed ==
    \/ sync.pc \in {"prompt", "auto_prompt"}
    \/ sync.pc = "done" /\ sync.status # "error"

\* the videos the listing of the directory holds no finished file for
WithoutFile(ids, names) == {vid \in ids : names \cap FinishedFilesFor[vid] = {}}

\* the snapshot kept for the download path and playlist of the running call
SnapshotKey == <<sync.normalized_path, sync.playlist_id>>

SnapshotIsCurrent ==
    /\ SnapshotKey \in DOMAIN playlist_states
    /\ playlist_states[SnapshotKey].video_ids = sync.current_ids
    /\ playlist_file = playlist_states

\* the ids of the members a listing reports, in its order, without the
\* members whose title marks them as deleted or private and without those
\* that carry neither id nor url
RECURSIVE ReportedIds(_)
ReportedIds(entries) ==
    IF entries = <<>> THEN <<>>
    ELSE LET e == Head(entries)
             gone == Lower(Strip(e.title)) \in {"[deleted video]", "[private video]"}
             ident == IF e.id # "" THEN e.id ELSE e.url
         IN  (IF gone \/ ident = "" THEN <<>> ELSE <<ident>>) \o ReportedIds(Tail(entries))

\* the running call has written the snapshot of its playlist (the clock
\* reading of a call is its number)
SnapshotWritten ==
    /\ sync.pc # "idle"
    /\ SnapshotKey \in DOMAIN playlist_states
    /\ playlist_states[SnapshotKey].last_checked = sync.calls

\* C34: a snapshot a call has persisted holds, in memory and in the file,
\* exactly the ids of the listing the call fetched, in the listing's order,
\* without the deleted and private members (and without members that have
\* no id at all): no id of the previous snapshot that the listing lacks is
\* kept.
C34_SnapshotIsTheCurrentListing ==
    SnapshotWritten =>
        /\ playlist_states[SnapshotKey].video_ids = ReportedIds(sync.entries)
        /\ playlist_states[SnapshotKey].playlist_url = sync.playlist_url
        /\ playlist_file = playlist_states
        /\ \A vid \in sync.prev_ids :
              vid \notin ToSet(ReportedIds(sync.entries))
                  => vid \notin ToSet(playlist_states[SnapshotKey].video_ids)

\* a snapshot of two videos was overwritten by a listing that holds one of
\* them after a deleted member
C34_Witness ==
    /\ SnapshotWritten
    /\ sync.prev_ids = {"abcdefghij", "klmnopqrstu"}
    /\ Len(sync.entries) = 2
    /\ sync.entries[1].id = "bili_BV1xx411c7mD"
    /\ sync.entries[2].id = "klmnopqrstu"
    /\ playlist_states[SnapshotKey].video_ids = <<"klmnopqrstu">>

\* the members the fetched listing reports that have no finished file in
\* the directory as the call listed it
ReportedWithoutFile == WithoutFile(ToSet(ReportedIds(sync.entries)), sync.names)

\* C39: every call that reaches the diff reports each member that the
\* listing holds as available and that has no local file, as added or as
\* missing, whatever earlier calls did and were answered; with such a
\* member the call does not return no-change.
C39_MemberWithoutFileAlwaysReported ==
    DiffComputed =>
        /\ ReportedWithoutFile \subseteq
              ToSet(sync.added_videos) \cup ToSet(sync.missing_videos)
        /\ ReportedWithoutFile # {} => sync.status # "no-change"

\* the second call reports as missing a member whose snapshot the first
\* call persisted and that still has no file
C39_Witness ==
    /\ DiffComputed
    /\ sync.calls = 2
    /\ SnapshotKey \in DOMAIN playlist_states
    /\ playlist_states[SnapshotKey].last_checked = 1
    /\ "klmnopqrstu" \in ReportedWithoutFile
    /\ "klmnopqrstu" \in sync.prev_ids
    /\ "klmnopqrstu" \in ToSet(sync.missing_videos)

\* C6: as sets, added = current - previous, removed = previous - current,
\* missing = the members of previous and current without a local file; so a
\* removed member is never missing, and a member of both whose file is gone
\* is missing.
C6_DiffIsSetDifference ==
    DiffComputed =>
        /\ ToSet(sync.added_videos) = ToSet(sync.current_ids) \ sync.prev_ids
        /\ sync.removed_ids = sync.prev_ids \ ToSet(sync.current_ids)
        /\ ToSet(sync.missing_videos) =
             WithoutFile(sync.prev_ids \cap ToSet(sync.current_ids), sync.names)
        /\ sync.removed_ids \cap ToSet(sync.missing_videos) = {}

\* one check finds a new video, a removed one whose file is still in the
\* directory, and one of both listings that has no file
C6_Witness ==
    /\ DiffComputed
    /\ sync.removed_ids = {"abcdefghij"}
    /\ "U - T [abcdefghij].mp4" \in sync.names
    /\ sync.missing_videos = <<"klmnopqrstu">>
    /\ sync.added_videos = <<"https://youtu.be/abcdefghiX">>
    /\ sync.current_ids = <<"https://youtu.be/abcdefghiX", "klmnopqrstu">>

ProceedsPastConfirmation ==
    /\ sync.pc \in {"idle", "prompt"}
    /\ sync'.pc \in {"auto_prompt", "done"}
    /\ sync'.status \notin {"error", "cancel", "no-change"}

C23_FetchFailureChangesNothing ==
    /\ [](sync.fetched \in {"failed", "empty"} =>
            /\ sync.pc = "done"
            /\ sync.status = "error"
            /\ playlist_states = sync.states_before
            /\ playlist_file = sync.file_before)
    /\ [][sync'.fetched \in {"failed", "empty"} =>
            /\ UNCHANGED <<playlist_states, playlist_file, download_history, history_file>>
            /\ sync'.workers = sync.workers
            /\ bj' = bj]_vars

\* a second call, made after a first one created a batch, got an empty
\* listing and returned error
C23_Witness ==
    /\ sync.pc = "done"
    /\ sync.fetched = "empty"
    /\ sync.reason = "empty"
    /\ sync.calls = 2
    /\ Len(sync.workers) = 1
    /\ playlist_states # << >>

\* the snapshot of the i-th known playlist of the pass
PassKey(i) == <<sync.pass.jobs[i].download_path, sync.pass.jobs[i].playlist_id>>

\* the i-th call of the pass stored the snapshot anew
RefreshedBy(i) ==
    /\ PassKey(i) \in DOMAIN playlist_states
    /\ playlist_states[PassKey(i)].last_checked = sync.pass.results[i].at

\* the fetch of some playlist of the pass failed
SomeFetchFailed ==
    \E k \in DOMAIN sync.pass.results : sync.pass.results[k].fetched = "failed"

SubmittedToDownloader(urls, playlist_url, current_ids) ==
    UNION {IF urls[i] = playlist_url THEN ToSet(current_ids) ELSE {VideoIdOf[urls[i]]}
             : i \in DOMAIN urls}

\* C20 (as claimed): when the call has started the download, the batch it
\* created submits to the downloader exactly the added videos and the
\* videos whose file is missing, and no other entry of the playlist.
C20_BatchCoversAddedAndMissingOnly ==
    (sync.pc = "done" /\ sync.auto_reply = "Yes" /\ IsDir(sync.normalized_path)) =>
        /\ sync.workers # <<>>
        /\ SubmittedToDownloader(sync.workers[Len(sync.workers)].urls,
                                 sync.playlist_url, sync.current_ids)
             = ToSet(sync.added_videos) \cup ToSet(sync.missing_videos)

\* ======================================================================
\* Closing the main window (MainWindow.closeEvent) while batches run
\* ======================================================================

\* QThread.isRunning(): run() has begun and has not returned
IsRunningThread(b) == b.pc \notin {"absent", "ready", "done"}

\* lines 2123-2126: every running worker is told to stop and waited for
\* during one second, whether it ends in that time or not
CloseStopsWorkers ==
    /\ frames["main"].pc = "idle"
    /\ frames' = [frames EXCEPT !["main"] = [IdleFrame EXCEPT !.fn = "closeEvent", !.pc = "save"]]
    /\ bj' = [j \in Jobs |->
                IF IsRunningThread(bj[j])
                THEN [bj[j] EXCEPT !.is_running = FALSE,
                                   !.stopped_at = IF @ = -1 THEN bj[j].idx ELSE @]
                ELSE bj[j]]
    /\ UNCHANGED bjproc
    /\ UNCHANGED <<download_history, history_file, history_lock, files, cwd_ok>>
    /\ UNCHANGED <<djVars, syncVars>>

\* lines 2128 and 2019: save_download_history opens the file for writing,
\* which empties it; self._history_lock is not taken
CloseOpensHistoryFile ==
    /\ frames["main"].fn = "closeEvent"
    /\ frames["main"].pc = "save"
    /\ frames' = [frames EXCEPT !["main"].pc = "dump"]
    /\ history_file' = << >>
    /\ UNCHANGED <<download_history, history_lock, files, cwd_ok>>
    /\ UNCHANGED <<djVars, batchVars, syncVars>>

\* line 2020: json.dump writes the history as it is in memory; when a worker
\* is inside its locked section at that time, the dictionary is changed and
\* the file written by two threads at once, and the file may be left
\* unreadable (read back as an empty history)
CloseDumpsHistory ==
    /\ frames["main"].fn = "closeEvent"
    /\ frames["main"].pc = "dump"
    /\ frames' = [frames EXCEPT !["main"].pc = "closed"]
    /\ \E written \in IF history_lock = "free" THEN {download_history}
                      ELSE {download_history, << >>} :
         history_file' = written
    /\ UNCHANGED <<download_history, history_lock, files, cwd_ok>>
    /\ UNCHANGED <<djVars, batchVars, syncVars>>

\* ----------------------------------------------------------------------
\* Properties of the download history shared by two batches
\* ----------------------------------------------------------------------

\* C15 (as claimed): whenever no thread holds the history lock, the history
\* file holds the history as it is in memory.
C15_FileIsMemoryWhenUnlocked ==
    history_lock = "free" => history_file = download_history

\* C16 (as claimed): of two batches with the same download path, at most
\* one invokes the downloader for a given video id.
C16_OneDownloadPerId ==
    \A j1, j2 \in Jobs :
        (j1 # j2 /\ normalize_path(bj[j1].download_path) = normalize_path(bj[j2].download_path)) =>
            \A k1 \in DOMAIN bj[j1].launched, k2 \in DOMAIN bj[j2].launched :
                VideoIdOf[bj[j1].urls[bj[j1].launched[k1]]]
                    # VideoIdOf[bj[j2].urls[bj[j2].launched[k2]]]

\* thread t is about to leave the locked section of add_to_download_history
AddReturns(t) ==
    /\ frames[t].fn = "add"
    /\ frames[t].pc = "locked"
    /\ frames'[t].pc = "ret"

\* C17: when add_to_download_history returns, the history holds an entry
\* for (normalized path, id) with the url and title of that call, every
\* other entry is as it was, so no entry added by another batch is lost, and
\* the file holds the same history.
C17_AddIsUpsert ==
    [][\A t \in Threads :
         AddReturns(t) =>
            LET key == HistoryKey(normalize_path(frames[t].path), frames[t].video_id) IN
            /\ history_lock = t
            /\ DOMAIN download_history' = DOMAIN download_history \cup {key}
            /\ download_history'[key] = [url |-> frames[t].url, title |-> frames[t].title]
            /\ \A k \in DOMAIN download_history \ {key} :
                 download_history'[k] = download_history[k]
            /\ history_file' = download_history']_vars

\* two batches have each added their own video, and both entries are there
C17_Witness ==
    /\ bj["job1"].pc = "done"
    /\ bj["job2"].pc = "done"
    /\ bj["job1"].stats.success = 1
    /\ bj["job2"].stats.success = 1
    /\ bj["job1"].urls # bj["job2"].urls
    /\ <<"/dl", "abcdefghij">> \in DOMAIN download_history
    /\ <<"/dl", "bili_BV1xx411c7mD">> \in DOMAIN download_history
    /\ download_history[<<"/dl", "abcdefghij">>].url = bj["job1"].urls[1]

\* ----------------------------------------------------------------------
\* Further claims about the BatchDownloadWorker (checked under SpecBatch)
\* ----------------------------------------------------------------------

\* the items a job has begun: those settled and those handed to the downloader
BegunItems(b) == {b.items[k].idx : k \in DOMAIN b.items} \cup ToSet(b.launched)

\* the items after which the job slept the inter-item delay
DelayedAfter(b) == ToSet(b.delays)

\* C33 as stated: the inter-item delay is taken after every settled item
\* that is followed by another one, whatever its outcome, and never after
\* the last item.
C33_DelayBetweenAnyTwoItems ==
    \A j \in Jobs :
        /\ Len(bj[j].urls) \notin DelayedAfter(bj[j])
        /\ \A k \in DOMAIN bj[j].items :
              bj[j].items[k].idx + 1 \in BegunItems(bj[j])
                  => bj[j].items[k].idx \in DelayedAfter(bj[j])

\* C33: the inter-item delay is taken after every item that was handed to
\* the downloader (success or failure) and is followed by another one; a
\* skipped item is followed by the next one without delay; the delay is
\* never taken after the last item.
C33_DelayAfterEveryDownloadButTheLast ==
    \A j \in Jobs :
        /\ Len(bj[j].urls) \notin DelayedAfter(bj[j])
        /\ \A k \in DOMAIN bj[j].items :
              /\ bj[j].items[k].outcome = "skipped"
                    => bj[j].items[k].idx \notin DelayedAfter(bj[j])
              /\ (bj[j].items[k].outcome # "skipped"
                  /\ bj[j].items[k].idx + 1 \in BegunItems(bj[j]))
                    => bj[j].items[k].idx \in DelayedAfter(bj[j])

\* a failed first item was followed by the delay and a second item, which
\* was the last and followed by none
C33_Witness ==
    /\ bj["job1"].pc = "done"
    /\ Len(bj["job1"].urls) = 2
    /\ Len(bj["job1"].items) = 2
    /\ bj["job1"].items[1].outcome = "failed"
    /\ bj["job1"].delays = <<1>>
    /\ bj["job1"].is_running

\* the progress string of the line the worker is about to read
NextInfo(j) == LineTable[Head(bjproc[j].pending)].info

\* the worker of job j reads a line of the item in flight while running
ReadsLine(j) ==
    /\ bj[j].pc = "stream"
    /\ bj[j].is_running
    /\ bjproc[j].pending # <<>>
    /\ bjproc'[j].pending = Tail(bjproc[j].pending)

\* C35: while one item is streamed, a progress string is emitted exactly
\* when the line read carries one that differs from the last one emitted
\* for the item: the strings emitted for an item are non-empty and no two
\* consecutive ones are equal.
C35_ProgressEmittedOnlyWhenChanged ==
    /\ [](\A j \in Jobs :
            /\ \A i \in DOMAIN bj[j].progress :
                  /\ bj[j].progress[i] # ""
                  /\ i > 1 => bj[j].progress[i] # bj[j].progress[i - 1]
            /\ bj[j].last_progress =
                  IF bj[j].progress = <<>> THEN "" ELSE bj[j].progress[Len(bj[j].progress)]
            /\ Len(bj[j].progress) <= bj[j].parsed)
    /\ [][\A j \in Jobs :
            ReadsLine(j) =>
                bj'[j].progress =
                    IF NextInfo(j) # "" /\ NextInfo(j) # bj[j].last_progress
                    THEN Append(bj[j].progress, NextInfo(j))
                    ELSE bj[j].progress]_vars

\* two lines with the same progress string were read for one item and the
\* string was emitted once
C35_Witness ==
    /\ bj["job1"].pc = "stream"
    /\ bj["job1"].parsed = 2
    /\ Len(bj["job1"].progress) = 1
    /\ bj["job1"].is_running

\* _download_single of job j left its read loop on stop() (lines 692-694),
\* the downloader died of the SIGTERM it was sent, and process.wait returns
TerminatedItemSettles(j) ==
    /\ bj[j].pc = "wait"
    /\ bj'[j].pc # "wait"
    /\ ~bjproc[j].alive
    /\ bjproc[j].sigterm
    /\ bjproc[j].returncode = -15

\* C37: an item whose downloader was terminated because of stop() is not
\* counted as successful and add_to_download_history is not called for it,
\* whatever output was read before the stop.
C37_TerminatedItemNeverSucceeds ==
    [][\A j \in Jobs :
          TerminatedItemSettles(j) =>
              /\ bj'[j].stats.success = bj[j].stats.success
              /\ bj'[j].pc # "add"
              /\ frames'[j].fn # "add"]_vars

\* the items the for loop of run() has taken up so far (line 616)
StartedItems(b) == IF b.idx > Len(b.urls) THEN Len(b.urls) ELSE b.idx

\* C38: the three counters of a batch are never negative and never
\* decrease, their sum is at most the number of items taken up so far, and
\* when the loop has run to its end without stop() and without an error
\* the sum is the number of input URLs.
C38_CountersBoundedByItemsStarted ==
    /\ [](\A j \in Jobs :
            /\ bj[j].stats.success >= 0
            /\ bj[j].stats.failed >= 0
            /\ bj[j].stats.skipped >= 0
            /\ StatsTotal(bj[j].stats) <= StartedItems(bj[j])
            /\ (bj[j].pc = "done" /\ bj[j].is_running /\ ~bj[j].error_logged)
                  => /\ StatsTotal(bj[j].stats) = Len(bj[j].urls)
                     /\ bj[j].task_finished = <<bj[j].stats>>)
    /\ [][\A j \in Jobs :
            /\ bj'[j].stats.success >= bj[j].stats.success
            /\ bj'[j].stats.failed >= bj[j].stats.failed
            /\ bj'[j].stats.skipped >= bj[j].stats.skipped]_vars

\* a batch of two URLs ran to its end without stop and without error: one
\* item was skipped, the other went to the downloader
C38_Witness ==
    /\ bj["job1"].pc = "done"
    /\ bj["job1"].is_running
    /\ ~bj["job1"].error_logged
    /\ Len(bj["job1"].urls) = 2
    /\ bj["job1"].stats.skipped = 1
    /\ bj["job1"].stats.failed = 1
    /\ StatsTotal(bj["job1"].stats) = 2

\* ----------------------------------------------------------------------
\* Two batches and the files their downloaders write (checked under SpecRace)
\* ----------------------------------------------------------------------

\* thread t, inside the locked section of is_downloaded, removes the entry
\* of its video
EvictsEntry(t) ==
    /\ frames[t].fn = "is_downloaded"
    /\ frames[t].pc = "locked"
    /\ frames'[t].pc = "ret"
    /\ HistoryKey(frames[t].norm, frames[t].video_id) \in DOMAIN download_history
    /\ HistoryKey(frames[t].norm, frames[t].video_id) \notin DOMAIN download_history'

\* C36: is_downloaded removes the entry of (path, id) only if the directory
\* holds no matching file at the moment of the removal, however the calls
\* of concurrent batches interleave.
C36_EvictedOnlyWhenNoFileAtRemoval ==
    [][\A t \in Jobs :
          EvictsEntry(t) => ~has_local_file_for_video(frames[t].norm, frames[t].video_id)]_vars

\* The components that take no part in a specification stay as constructed.
DJAbsent == [DJInitFor(0) EXCEPT !.pc = "absent"]
IdleFrames == [t \in Threads |-> IdleFrame]
NoJobs == [j \in Jobs |-> BJAbsent]
NoProcesses == [j \in Jobs |-> NoProcess]

\* One DownloadWorker, constructed with max_retries -1 .. MaxRetriesArg
DJInit ==
    /\ \E m \in -1..MaxRetriesArg : dj = DJInitFor(m)
    /\ djproc = NoProcess
    /\ frames = IdleFrames
    /\ download_history = << >>
    /\ history_file = << >>
    /\ history_lock = "free"
    /\ files = << >>
    /\ cwd_ok = TRUE
    /\ bj = NoJobs
    /\ bjproc = NoProcesses
    /\ playlist_states = << >>
    /\ playlist_file = << >>
    /\ sync = SyncIdleState
    /\ dstats = NoStatsCase
    /\ built = NoCommand

\* The main window with a history loaded from download_history.json and a
\* download directory
LedgerInit ==
    /\ dj = DJAbsent
    /\ djproc = NoProcess
    /\ frames = IdleFrames
    /\ download_history \in InitialHistories
    /\ history_file = download_history
    /\ history_lock = "free"
    /\ files \in [{"/dl"} -> SUBSET FileNames]
    /\ cwd_ok = TRUE
    /\ bj = NoJobs
    /\ bjproc = NoProcesses
    /\ playlist_states = << >>
    /\ playlist_file = << >>
    /\ sync = SyncIdleState
    /\ dstats = NoStatsCase
    /\ built = NoCommand

\* One BatchDownloadWorker (job1) before start()
BatchInit ==
    /\ dj = DJAbsent
    /\ djproc = NoProcess
    /\ frames = IdleFrames
    /\ download_history \in BatchHistories
    /\ history_file = download_history
    /\ history_lock = "free"
    /\ files \in BatchListings
    /\ cwd_ok = TRUE
    /\ \E cfg \in BatchConfigs, n \in 1..MaxItems :
         bj = [j \in Jobs |-> IF j = "job1" THEN BJInitFor(BatchUrls(n), cfg) ELSE BJAbsent]
    /\ bjproc = NoProcesses
    /\ playlist_states = << >>
    /\ playlist_file = << >>
    /\ sync = SyncIdleState
    /\ dstats = NoStatsCase
    /\ built = NoCommand

\* The main window with the snapshots loaded from playlist_states.json
SyncInit ==
    /\ dj = DJAbsent
    /\ djproc = NoProcess
    /\ frames = IdleFrames
    /\ download_history \in SyncHistories
    /\ history_file = download_history
    /\ history_lock = "free"
    /\ files = [d \in {"/dl"} |-> {"U - T [abcdefghij].mp4"}]
    /\ cwd_ok = TRUE
    /\ bj = NoJobs
    /\ bjproc = NoProcesses
    /\ playlist_states \in InitialSnapshots
    /\ playlist_file = playlist_states
    /\ sync = SyncIdleState
    /\ dstats = NoStatsCase
    /\ built = NoCommand

SyncNext ==
    \/ SyncDetect
    \/ SyncAnswer
    \/ SyncAutoAnswer
    \/ SyncReturn
    \/ EnvDeleteFile

\* Two batches of one URL each, started by the main window for the same
\* download directory, the second for the same URL or for another one
SharedInit ==
    /\ dj = DJAbsent
    /\ djproc = NoProcess
    /\ frames = IdleFrames
    /\ download_history \in BatchHistories
    /\ history_file = download_history
    /\ history_lock = "free"
    /\ files = [d \in {"/dl"} |-> {}]
    /\ cwd_ok = TRUE
    /\ \E n \in 1..2 :
         bj = [j \in Jobs |->
                 BJInitFor(<<UrlPool[IF j = "job1" THEN 1 ELSE n]>>,
                           [download_path |-> "/dl", download_timeout |-> DEFAULT_TIMEOUT,
                            has_main_window |-> TRUE])]
    /\ bjproc = NoProcesses
    /\ playlist_states = << >>
    /\ playlist_file = << >>
    /\ sync = SyncIdleState
    /\ dstats = NoStatsCase
    /\ built = NoCommand

SharedNext ==
    \/ \E j \in Jobs : BJStart(j)
    \/ \E j \in Jobs : BJLoopTop(j)
    \/ \E j \in Jobs : BJBeginItem(j)
    \/ \E j \in Jobs : BJAfterLookup(j)
    \/ \E j \in Jobs : BJPopen(j)
    \/ \E j \in Jobs : BJPopenFails(j)
    \/ \E j \in Jobs : BJReadEOF(j)
    \/ \E j \in Jobs : BJAfterAdd(j)
    \/ \E j \in Jobs : BJProcExit(j)
    \/ \E t \in Threads : IsDownloadedBegin(t)
    \/ \E t \in Threads : AddBegin(t)
    \/ \E t \in Threads : AcquireHistoryLock(t)
    \/ \E t \in Threads : IsDownloadedLocked(t)
    \/ \E t \in Threads : AddLocked(t)
    \/ CloseStopsWorkers
    \/ CloseOpensHistoryFile
    \/ CloseDumpsHistory

\* Two batches of one URL each for the same download directory, which is
\* empty at first
RaceInit ==
    /\ dj = DJAbsent
    /\ djproc = NoProcess
    /\ frames = IdleFrames
    /\ download_history \in BatchHistories
    /\ history_file = download_history
    /\ history_lock = "free"
    /\ files = [d \in {"/dl"} |-> {}]
    /\ cwd_ok = TRUE
    /\ \E n \in 1..2 :
         bj = [j \in Jobs |->
                 BJInitFor(<<UrlPool[IF j = "job1" THEN 1 ELSE n]>>,
                           [download_path |-> "/dl", download_timeout |-> DEFAULT_TIMEOUT,
                            has_main_window |-> TRUE])]
    /\ bjproc = NoProcesses
    /\ playlist_states = << >>
    /\ playlist_file = << >>
    /\ sync = SyncIdleState
    /\ dstats = NoStatsCase
    /\ built = NoCommand

RaceNext ==
    \/ \E j \in Jobs : BJStart(j)
    \/ \E j \in Jobs : BJLoopTop(j)
    \/ \E j \in Jobs : BJBeginItem(j)
    \/ \E j \in Jobs : BJAfterLookup(j)
    \/ \E j \in Jobs : BJPopen(j)
    \/ \E j \in Jobs : BJReadEOF(j)
    \/ \E j \in Jobs : BJAfterAdd(j)
    \/ \E j \in Jobs : BJProcExit(j)
    \/ \E j \in Jobs : BJProcCreatesFile(j)
    \/ \E t \in Threads : IsDownloadedBegin(t)
    \/ \E t \in Threads : AddBegin(t)
    \/ \E t \in Threads : AcquireHistoryLock(t)
    \/ \E t \in Threads : IsDownloadedLocked(t)
    \/ \E t \in Threads : AddLocked(t)

\* One batch without a main window behind it, in a directory that exists,
\* with and without a time limit for the downloader
StopInit ==
    /\ dj = DJAbsent
    /\ djproc = NoProcess
    /\ frames = IdleFrames
    /\ download_history = << >>
    /\ history_file = download_history
    /\ history_lock = "free"
    /\ files = [d \in {"/dl"} |-> {}]
    /\ cwd_ok = TRUE
    /\ \E t \in {DEFAULT_TIMEOUT, 0}, n \in 1..MaxItems :
         bj = [j \in Jobs |->
                 IF j = "job1"
                 THEN BJInitFor(BatchUrls(n),
                                [download_path |-> "/dl", download_timeout |-> t,
                                 has_main_window |-> FALSE])
                 ELSE BJAbsent]
    /\ bjproc = NoProcesses
    /\ playlist_states = << >>
    /\ playlist_file = << >>
    /\ sync = SyncIdleState
    /\ dstats = NoStatsCase
    /\ built = NoCommand

StopNext ==
    \/ \E j \in Jobs : BJStop(j)
    \/ \E j \in Jobs : BJStart(j)
    \/ \E j \in Jobs : BJLoopTop(j)
    \/ \E j \in Jobs : BJBeginItem(j)
    \/ \E j \in Jobs : BJPopen(j)
    \/ \E j \in Jobs : BJPopenFails(j)
    \/ \E j \in Jobs : BJReadLine(j)
    \/ \E j \in Jobs : BJReadEOF(j)
    \/ \E j \in Jobs : BJWaitReturns(j)
    \/ \E j \in Jobs : BJWaitTimeout(j)
    \/ \E j \in Jobs : BJDelayWake(j)
    \/ \E j \in Jobs : BJProcWrite(j)
    \/ \E j \in Jobs : BJProcExit(j)

\* a step of the thread that executes run(): the thread is scheduled, its
\* sleeps end and the time limit of process.wait runs out
WorkerStep ==
    \E j \in Jobs :
        \/ BJStart(j)
        \/ BJLoopTop(j)
        \/ BJBeginItem(j)
        \/ BJPopen(j)
        \/ BJReadLine(j)
        \/ BJReadEOF(j)
        \/ BJWaitReturns(j)
        \/ BJWaitTimeout(j)
        \/ BJDelayWake(j)

\* a downloader that was sent SIGTERM exits
ExitOnSigterm == \E j \in Jobs : bjproc[j].sigterm /\ BJProcExit(j)

\* The main window with two known playlists, before "check all" is chosen
CheckAllInit ==
    /\ dj = DJAbsent
    /\ djproc = NoProcess
    /\ frames = IdleFrames
    /\ download_history \in SyncHistories
    /\ history_file = download_history
    /\ history_lock = "free"
    /\ files = [d \in {"/dl"} |-> {"U - T [abcdefghij].mp4"}]
    /\ cwd_ok = TRUE
    /\ bj = NoJobs
    /\ bjproc = NoProcesses
    /\ playlist_states \in KnownSnapshots
    /\ playlist_file = playlist_states
    /\ sync = SyncIdleState
    /\ dstats = NoStatsCase
    /\ built = NoCommand

CheckAllNext ==
    \/ CheckAllBegin
    \/ CheckAllDetect
    \/ SyncAnswer
    \/ SyncAutoAnswer
    \/ CheckAllReturn

\* One DownloadWorker and one batch of two URLs without a main window, on a
\* machine where starting the downloader can fail
FaultsInit ==
    /\ \E m \in 1..MaxRetriesArg : dj = DJInitFor(m)
    /\ djproc = NoProcess
    /\ frames = IdleFrames
    /\ download_history = << >>
    /\ history_file = download_history
    /\ history_lock = "free"
    /\ files = [d \in {"/dl"} |-> {}]
    /\ cwd_ok = TRUE
    /\ bj = [j \in Jobs |->
               IF j = "job1"
               THEN BJInitFor(BatchUrls(MaxItems),
                              [download_path |-> "/dl", download_timeout |-> DEFAULT_TIMEOUT,
                               has_main_window |-> FALSE])
               ELSE BJAbsent]
    /\ bjproc = NoProcesses
    /\ playlist_states = << >>
    /\ playlist_file = << >>
    /\ sync = SyncIdleState
    /\ dstats = NoStatsCase
    /\ built = NoCommand

FaultsNext ==
    \/ DJCancel
    \/ DJCancelWaitReturns
    \/ DJCancelWaitTimeout
    \/ DJStart
    \/ DJLoopHead
    \/ DJWake
    \/ DJPopen
    \/ DJPopenFails
    \/ DJReadEOF
    \/ DJProcExit
    \/ \E j \in Jobs : BJStop(j)
    \/ \E j \in Jobs : BJStart(j)
    \/ \E j \in Jobs : BJLoopTop(j)
    \/ \E j \in Jobs : BJBeginItem(j)
    \/ \E j \in Jobs : BJPopen(j)
    \/ \E j \in Jobs : BJPopenFails(j)
    \/ \E j \in Jobs : BJReadEOF(j)
    \/ \E j \in Jobs : BJDelayWake(j)
    \/ \E j \in Jobs : BJProcExit(j)

\* Two batches of one URL each and one DownloadWorker, started by the same
\* main window, which may stop, pause, resume and cancel each of them
ControlInit ==
    /\ dj = DJInitFor(1)
    /\ djproc = NoProcess
    /\ frames = IdleFrames
    /\ download_history = << >>
    /\ history_file = download_history
    /\ history_lock = "free"
    /\ files = [d \in {"/dl"} |-> {}]
    /\ cwd_ok = TRUE
    /\ bj = [j \in Jobs |->
               BJInitFor(BatchUrls(1),
                         [download_path |-> "/dl", download_timeout |-> DEFAULT_TIMEOUT,
                          has_main_window |-> FALSE])]
    /\ bjproc = NoProcesses
    /\ playlist_states = << >>
    /\ playlist_file = << >>
    /\ sync = SyncIdleState
    /\ dstats = NoStatsCase
    /\ built = NoCommand

ControlNext ==
    \/ \E j \in Jobs : BJStop(j)
    \/ \E j \in Jobs : BJPause(j)
    \/ \E j \in Jobs : BJResume(j)
    \/ DJCancel
    \/ DJCancelWaitReturns
    \/ DJCancelWaitTimeout
    \/ \E j \in Jobs : BJStart(j)
    \/ \E j \in Jobs : BJLoopTop(j)
    \/ \E j \in Jobs : BJPauseWake(j)
    \/ \E j \in Jobs : BJBeginItem(j)
    \/ \E j \in Jobs : BJPopen(j)
    \/ \E j \in Jobs : BJReadEOF(j)
    \/ \E j \in Jobs : BJProcExit(j)
    \/ DJStart
    \/ DJLoopHead
    \/ DJPopen
    \/ DJReadEOF
    \/ DJProcExit

\* A DownloadStats object with non-negative fields
StatsInit ==
    /\ dj = DJAbsent
    /\ djproc = NoProcess
    /\ frames = IdleFrames
    /\ download_history = << >>
    /\ history_file = download_history
    /\ history_lock = "free"
    /\ files = << >>
    /\ cwd_ok = TRUE
    /\ bj = NoJobs
    /\ bjproc = NoProcesses
    /\ playlist_states = << >>
    /\ playlist_file = << >>
    /\ sync = SyncIdleState
    /\ built = NoCommand
    /\ \E s \in StatsObjects : dstats = [NoStatsCase EXCEPT !.pc = "object", !.s = s]

StatsNext ==
    \/ StatsToDict
    \/ StatsDropKeys
    \/ StatsFromDict

\* A worker of either kind about to build its command, the extracted cookie
\* files all on disk
CommandInit ==
    /\ dj = DJAbsent
    /\ djproc = NoProcess
    /\ frames = IdleFrames
    /\ download_history = << >>
    /\ history_file = download_history
    /\ history_lock = "free"
    /\ files = << >>
    /\ cwd_ok = TRUE
    /\ bj = NoJobs
    /\ bjproc = NoProcesses
    /\ playlist_states = << >>
    /\ playlist_file = << >>
    /\ sync = SyncIdleState
    /\ dstats = NoStatsCase
    /\ \E existing \in {CookiePaths} :
         \/ \E w \in CommandWorkers :
              built = [NoCommand EXCEPT !.pc = "ready", !.kind = "single", !.self = w,
                                        !.url = w.url, !.existing = existing]
         \/ \E s \in CommandSettings, url \in CommandUrls :
              built = [NoCommand EXCEPT !.pc = "ready", !.kind = "batch", !.settings = s,
                                        !.url = url, !.existing = existing]

CommandNext ==
    \/ BuildCommand
    \/ BuildYtdlpCommand
    \/ CookieFileRemoved

\* One DownloadWorker, its process and the thread that may cancel it
SpecDJ == DJInit /\ [][DJNext]_vars

\* The download history and the download directory, used from the main thread
SpecLedger == LedgerInit /\ [][LedgerNext]_vars

\* One BatchDownloadWorker with its downloader processes, the download
\* history it shares with the main window, and the download directory
SpecBatch == BatchInit /\ [][BatchNext]_vars

\* A DownloadWorker and a batch whose downloader may fail to start
SpecFaults == FaultsInit /\ [][FaultsNext]_vars

\* Two batches and a DownloadWorker under the controls of the main window
SpecControl == ControlInit /\ [][ControlNext]_vars

\* DownloadStats objects turned into dicts and read back
SpecStats == StatsInit /\ [][StatsNext]_vars

\* The two command builders applied to workers with and without cookie files
SpecCommand == CommandInit /\ [][CommandNext]_vars

\* Two batches sharing the download history and the download directory, into
\* which their downloaders write the finished files
SpecRace == RaceInit /\ [][RaceNext]_vars

\* One pass of check_all_playlists over two known playlists
SpecCheckAll == CheckAllInit /\ [][CheckAllNext]_vars

\* The batch of StopInit with a worker thread that keeps running and a
\* downloader that obeys SIGTERM; nothing obliges the downloader to write
\* or to exit by itself, and nobody is obliged to call stop()
SpecStop ==
    StopInit /\ [][StopNext]_vars /\ WF_vars(WorkerStep) /\ WF_vars(ExitOnSigterm)

\* detect_playlist_updates called from the main window, the user answering
\* its dialogs
SpecSync == SyncInit /\ [][SyncNext]_vars

\* Two BatchDownloadWorkers sharing the download history of the main
\* window, which may be closed while they run
SpecShared == SharedInit /\ [][SharedNext]_vars

====
